---------------------------- MODULE Spec2Model ----------------------------
(* Paper-tearing core of the scratch calendar: the triangle mesh            *)
(* (PaperMesh) and the force-based tear propagation (TearSimulation).        *)
(*                                                                         *)
(* Numbers of the program are JavaScript doubles.  They are represented    *)
(* here in fixed point: the integer n stands for the number n / FP.        *)
(* Products and quotients are rescaled with Mul and Quo, which round       *)
(* toward zero.                                                            *)
EXTENDS Integers, Sequences, FiniteSets, TLC

(***************************************************************************)
(* Bounds of the model                                                     *)
(***************************************************************************)
MaxSubdivisions == 2
MaxMeshOps == 2
MaxVertices == 10
MaxSteps == 4
MaxSimCalls == 2
MaxTears == 2
MaxFallFrames == 2
MaxDates == 4

(***************************************************************************)
(* Number representation and the program's literals                        *)
(***************************************************************************)
FP == 1200
\* v > 0.95 pins a vertex (hundredths)
PinPercent == 95

NoVertex == -1

\* the values of t tried for insertVertexOnEdge, as <<numerator, denominator>>
TValues == {<<1, 2>>}

Abs(x) == IF x < 0 THEN -x ELSE x
Min(a, b) == IF a < b THEN a ELSE b
Max(a, b) == IF a > b THEN a ELSE b
\* quotient rounded toward zero
Quo(a, b) == IF (a < 0) = (b < 0) THEN Abs(a) \div Abs(b) ELSE -(Abs(a) \div Abs(b))
\* product of two fixed-point numbers: |a| * |b| \div FP with the sign of the
\* product, computed from the whole and the fractional part of the larger
\* factor so that only the result has to fit the integers
Mul(a, b) ==
  LET x == Max(Abs(a), Abs(b))
      y == Min(Abs(a), Abs(b))
      p == (x \div FP) * y + ((x % FP) * y) \div FP
  IN IF (a < 0) = (b < 0) THEN p ELSE -p
\* Math.ceil(a / b) for a >= 0, b > 0
CeilDiv(a, b) == (a + b - 1) \div b

Includes(s, x) == \E i \in 1..Len(s) : s[i] = x
IndexOf(s, x) == IF Includes(s, x) THEN (CHOOSE i \in 1..Len(s) : s[i] = x /\ \A j \in 1..(i - 1) : s[j] # x) - 1 ELSE -1

Zero3 == <<0, 0, 0>>

\* a function given by a rule, as the explicit table of its values
Table(f) == f @@ <<>>

\* the element of a one-element set: the value of an expression, computed once
The(S) == CHOOSE x \in S : TRUE

(***************************************************************************)
(* vec2 and vec3                                                           *)
(***************************************************************************)
\* Math.sqrt on a sum of squares of fixed-point numbers: the largest r with r * r <= n
RECURSIVE SqrtBetween(_, _, _)
SqrtBetween(n, lo, hi) ==
  IF hi - lo <= 1 THEN lo
  ELSE LET mid == (lo + hi) \div 2
       IN IF mid * mid <= n THEN SqrtBetween(n, mid, hi) ELSE SqrtBetween(n, lo, mid)

Sqrt(n) == SqrtBetween(n, 0, 46341)

\* Math.sqrt(a * a + b * b + c * c); components whose squares do not fit the
\* integers are scaled down before squaring and the root scaled up again
Hypot(a, b, c) ==
  LET k == (Max(Abs(a), Max(Abs(b), Abs(c))) \div 26754) + 1
  IN k * Sqrt(Quo(a, k) * Quo(a, k) + Quo(b, k) * Quo(b, k) + Quo(c, k) * Quo(c, k))

\* the literal 0.0001 of normalize and of the rest-determinant test, for lengths
\* and for products of two lengths
Epsilon == FP \div 10000
EpsilonSq == (FP * FP) \div 10000

vec2add(a, b) == <<a[1] + b[1], a[2] + b[2]>>
vec2sub(a, b) == <<a[1] - b[1], a[2] - b[2]>>
vec2scale(v, k) == <<Mul(v[1], k), Mul(v[2], k)>>
vec2dot(a, b) == Quo(a[1] * b[1] + a[2] * b[2], FP)
vec2length(v) == Hypot(v[1], v[2], 0)
vec2normalize(v) ==
  LET len == vec2length(v)
  IN IF len > Epsilon THEN <<Quo(v[1] * FP, len), Quo(v[2] * FP, len)>> ELSE <<0, 0>>
vec2bisector(a, b) == vec2normalize(vec2add(vec2normalize(a), vec2normalize(b)))
vec2perpendicular(v) == <<-v[2], v[1]>>

vec3add(a, b) == <<a[1] + b[1], a[2] + b[2], a[3] + b[3]>>
vec3sub(a, b) == <<a[1] - b[1], a[2] - b[2], a[3] - b[3]>>
vec3scale(v, k) == <<Mul(v[1], k), Mul(v[2], k), Mul(v[3], k)>>
vec3length(v) == Hypot(v[1], v[2], v[3])
vec3normalize(v) ==
  LET len == vec3length(v)
  IN IF len > Epsilon THEN <<Quo(v[1] * FP, len), Quo(v[2] * FP, len), Quo(v[3] * FP, len)>> ELSE Zero3

(***************************************************************************)
(* PaperMesh                                                               *)
(* A mesh value is a record [vertices, triangles, edges, nextVertexId,     *)
(* nextTriangleId]: vertices and triangles are functions on the ids issued *)
(* so far (a Map iterates in insertion order, which is id order because    *)
(* nothing is ever deleted), edges is the edge Map in insertion order.     *)
(***************************************************************************)
edgeKey(v0, v1) == <<Min(v0, v1), Max(v0, v1)>>

EdgeIndex(edges, key) == IF \E i \in 1..Len(edges) : edges[i].vertices = key THEN CHOOSE i \in 1..Len(edges) : edges[i].vertices = key ELSE 0

Upto(n) == [i \in 1..n |-> i]

\* rebuildEdges visits the sides of the triangles in Map order: side s (counted
\* from 1) is side (s - 1) % 3 of triangle (s - 1) \div 3
SideKey(triangles, s) ==
  LET tv == triangles[(s - 1) \div 3].vertices
      k == ((s - 1) % 3) + 1
  IN edgeKey(tv[k], tv[(k % 3) + 1])

\* addEdge, applied to every side in order: a side whose key is new appends an
\* edge, a side whose key is known adds its triangle to that edge unless present
addEdge(triangles, n) ==
  LET keys == Table([s \in 1..(3 * n) |-> SideKey(triangles, s)])
      created == SelectSeq(Upto(3 * n), LAMBDA s : \A r \in 1..(s - 1) : keys[r] # keys[s])
      trianglesOf(key) == SelectSeq([k \in 1..n |-> k - 1], LAMBDA t : \E k \in 1..3 : keys[3 * t + k] = key)
  IN Table([i \in 1..Len(created) |->
        [vertices |-> keys[created[i]], triangles |-> trianglesOf(keys[created[i]]),
         isBoundary |-> TRUE, isTorn |-> FALSE, tearProgress |-> 0]])

\* the neighbor list rebuildEdges pushes for triangle t: the other triangle of
\* every edge with exactly two triangles, in edge order, without repetition
Neighbors(edges, t) ==
  LET shared == SelectSeq(Upto(Len(edges)), LAMBDA i : Len(edges[i].triangles) = 2 /\ Includes(edges[i].triangles, t))
      other(i) == IF edges[i].triangles[1] = t THEN edges[i].triangles[2] ELSE edges[i].triangles[1]
      firstUse == SelectSeq(Upto(Len(shared)), LAMBDA k : \A j \in 1..(k - 1) : other(shared[j]) # other(shared[k]))
  IN [k \in 1..Len(firstUse) |-> other(shared[firstUse[k]])]

rebuildEdges(M) ==
  LET raw == addEdge(M.triangles, M.nextTriangleId)
      edges == Table([i \in 1..Len(raw) |-> [raw[i] EXCEPT !.isBoundary = (Len(raw[i].triangles) = 1)]])
      onBoundaryEdge(v) == \E i \in 1..Len(edges) : edges[i].isBoundary /\ (edges[i].vertices[1] = v \/ edges[i].vertices[2] = v)
      verts == Table([v \in DOMAIN M.vertices |-> IF onBoundaryEdge(v) THEN [M.vertices[v] EXCEPT !.isBoundary = TRUE] ELSE M.vertices[v]])
      tris == Table([t \in DOMAIN M.triangles |-> [M.triangles[t] EXCEPT !.neighbors = Table(Neighbors(edges, t))]])
  IN [M EXCEPT !.edges = edges, !.vertices = verts, !.triangles = tris]

getEdge(M, v0, v1) == EdgeIndex(M.edges, edgeKey(v0, v1))

\* ids of the edges that have vertexId as an endpoint, in Map order
getVertexEdges(M, vertexId) ==
  SelectSeq(Upto(Len(M.edges)), LAMBDA i : M.edges[i].vertices[1] = vertexId \/ M.edges[i].vertices[2] = vertexId)

\* ids of the triangles that contain vertexId, in Map order
getVertexTriangles(M, vertexId) ==
  SelectSeq([k \in 1..M.nextTriangleId |-> k - 1], LAMBDA t : Includes(M.triangles[t].vertices, vertexId))

\* twice the signed rest-UV area of (p0, p1, p2), scaled by FP * FP
Det2(p0, p1, p2) == (p1[1] - p0[1]) * (p2[2] - p0[2]) - (p2[1] - p0[1]) * (p1[2] - p0[2])

NewTriangle(verts, id, v0, v1, v2) ==
  [id |-> id, vertices |-> <<v0, v1, v2>>,
   restArea |-> Quo(Abs(Det2(verts[v0].uv, verts[v1].uv, verts[v2].uv)), 2 * FP),
   neighbors |-> <<>>]

addTriangle(M, v0, v1, v2) ==
  LET id == M.nextTriangleId
  IN [M EXCEPT !.triangles = (id :> NewTriangle(M.vertices, id, v0, v1, v2)) @@ M.triangles,
               !.nextTriangleId = id + 1]

GridCols(cfg) == cfg.subdivisions
GridRows(cfg) == CeilDiv(cfg.subdivisions * cfg.height, cfg.width)

GridVertex(cfg, id) ==
  LET cols == GridCols(cfg)
      rows == GridRows(cfg)
      i == id % (cols + 1)
      j == id \div (cols + 1)
      cellWidth == Quo(cfg.width * FP, cols)
      cellHeight == Quo(cfg.height * FP, rows)
      u == Quo(i * FP, cols)
      v == Quo(j * FP, rows)
  IN [id |-> id,
      position |-> <<(u - FP \div 2) * cfg.width, (v - FP \div 2) * cfg.height, 0>>,
      uv |-> <<u, v>>,
      velocity |-> Zero3,
      mass |-> Quo(Mul(Mul(cfg.density, cellWidth), cellHeight), 4),
      pinned |-> (v * 100 > PinPercent * FP),
      isBoundary |-> (i = 0 \/ i = cols \/ j = 0 \/ j = rows),
      isTearTip |-> FALSE]

GridTriangle_WrongRowStride(verts, cols, t) ==
  LET c == t \div 2
      i == c % cols
      j == c \div cols
      v00 == j * cols + i
      v10 == v00 + 1
      v01 == (j + 1) * cols + i
      v11 == v01 + 1
  IN IF t % 2 = 0 THEN NewTriangle(verts, t, v00, v10, v01) ELSE NewTriangle(verts, t, v10, v11, v01)

\* the triangle with id t of the grid: cell t \div 2, lower-left when t is even
GridTriangle(verts, cols, t) ==
  LET c == t \div 2
      i == c % cols
      j == c \div cols
      v00 == j * (cols + 1) + i
      v10 == v00 + 1
      v01 == (j + 1) * (cols + 1) + i
      v11 == v01 + 1
  IN IF t % 2 = 0 THEN NewTriangle(verts, t, v00, v10, v01) ELSE NewTriangle(verts, t, v10, v11, v01)

buildInitialMesh(cfg) ==
  LET cols == GridCols(cfg)
      rows == GridRows(cfg)
      n == (cols + 1) * (rows + 1)
      verts == Table([id \in 0..(n - 1) |-> GridVertex(cfg, id)])
      M0 == [vertices |-> verts,
             triangles |-> Table([t \in 0..(2 * cols * rows - 1) |-> GridTriangle(verts, cols, t)]),
             edges |-> <<>>,
             nextVertexId |-> n,
             nextTriangleId |-> 2 * cols * rows]
  IN rebuildEdges(M0)

WithVertex_OverLastVertex(M, vertex) ==
  [M EXCEPT !.vertices = ((vertex.id - 1) :> vertex) @@ M.vertices]

WithVertex(M, vertex) ==
  [M EXCEPT !.vertices = (vertex.id :> vertex) @@ M.vertices]

ReplaceAt(s, idx, x) == [s EXCEPT ![idx + 1] = x]

MoveTriangles_EveryTriangle(M, trianglesToMove, k, vertexId, newId) ==
  [mesh |-> [M EXCEPT !.triangles = Table([t \in DOMAIN M.triangles |->
                IF Includes(M.triangles[t].vertices, vertexId)
                THEN [M.triangles[t] EXCEPT !.vertices = ReplaceAt(@, IndexOf(@, vertexId), newId)]
                ELSE M.triangles[t]])],
   threw |-> \E i \in 1..Len(trianglesToMove) : trianglesToMove[i] \notin DOMAIN M.triangles]

RECURSIVE MoveTriangles_SkipsUnknown(_, _, _, _, _)
MoveTriangles_SkipsUnknown(M, trianglesToMove, k, vertexId, newId) ==
  IF k > Len(trianglesToMove) THEN [mesh |-> M, threw |-> FALSE]
  ELSE LET triId == trianglesToMove[k] IN
       IF triId \notin DOMAIN M.triangles THEN MoveTriangles_SkipsUnknown(M, trianglesToMove, k + 1, vertexId, newId)
       ELSE LET idx == IndexOf(M.triangles[triId].vertices, vertexId)
                M1 == IF idx # -1 THEN [M EXCEPT !.triangles[triId].vertices = ReplaceAt(@, idx, newId)] ELSE M
            IN MoveTriangles_SkipsUnknown(M1, trianglesToMove, k + 1, vertexId, newId)

\* the loop of splitVertex over trianglesToMove; stops at the first unknown id
RECURSIVE MoveTriangles(_, _, _, _, _)
MoveTriangles(M, trianglesToMove, k, vertexId, newId) ==
  IF k > Len(trianglesToMove) THEN [mesh |-> M, threw |-> FALSE]
  ELSE LET triId == trianglesToMove[k] IN
       IF triId \notin DOMAIN M.triangles THEN [mesh |-> M, threw |-> TRUE]
       ELSE LET idx == IndexOf(M.triangles[triId].vertices, vertexId)
                M1 == IF idx # -1 THEN [M EXCEPT !.triangles[triId].vertices = ReplaceAt(@, idx, newId)] ELSE M
            IN MoveTriangles(M1, trianglesToMove, k + 1, vertexId, newId)

\* result: the mesh afterwards, the id returned, and whether a TypeError ended the call
splitVertex_KeepsEdges(M, vertexId, trianglesToMove) ==
  LET newId == M.nextVertexId
      M1 == [M EXCEPT !.nextVertexId = newId + 1]
  IN IF vertexId \notin DOMAIN M.vertices
     THEN [mesh |-> M1, newId |-> NoVertex, threw |-> TRUE]
     ELSE LET M2 == WithVertex(M1, [M.vertices[vertexId] EXCEPT !.id = newId])
              moved == MoveTriangles(M2, trianglesToMove, 1, vertexId, newId)
          IN IF moved.threw
             THEN [mesh |-> moved.mesh, newId |-> NoVertex, threw |-> TRUE]
             ELSE [mesh |-> moved.mesh, newId |-> newId, threw |-> FALSE]

splitVertex(M, vertexId, trianglesToMove) ==
  LET newId == M.nextVertexId
      M1 == [M EXCEPT !.nextVertexId = newId + 1]
  IN IF vertexId \notin DOMAIN M.vertices
     THEN [mesh |-> M1, newId |-> NoVertex, threw |-> TRUE]
     ELSE LET M2 == WithVertex(M1, [M.vertices[vertexId] EXCEPT !.id = newId])
              moved == MoveTriangles(M2, trianglesToMove, 1, vertexId, newId)
          IN IF moved.threw
             THEN [mesh |-> moved.mesh, newId |-> NoVertex, threw |-> TRUE]
             ELSE [mesh |-> rebuildEdges(moved.mesh), newId |-> newId, threw |-> FALSE]

SetBoundary(M, ids) ==
  [M EXCEPT !.vertices = Table([v \in DOMAIN M.vertices |-> IF v \in ids THEN [M.vertices[v] EXCEPT !.isBoundary = TRUE] ELSE M.vertices[v]])]

tearEdge_MovesBothSides(M, v0, v1) ==
  LET e == getEdge(M, v0, v1) IN
  IF e = 0 \/ M.edges[e].isTorn THEN M
  ELSE IF Len(M.edges[e].triangles) = 2
       THEN LET s0 == splitVertex(M, v0, M.edges[e].triangles)
                s1 == splitVertex(s0.mesh, v1, M.edges[e].triangles)
            IN rebuildEdges(SetBoundary(s1.mesh, {v0, v1, s0.newId, s1.newId}))
       ELSE rebuildEdges(M)

tearEdge_SplitsBoundaryEdge(M, v0, v1) ==
  LET e == getEdge(M, v0, v1) IN
  IF e = 0 \/ M.edges[e].isTorn THEN M
  ELSE LET t1 == M.edges[e].triangles[Len(M.edges[e].triangles)]
           s0 == splitVertex(M, v0, <<t1>>)
           s1 == splitVertex(s0.mesh, v1, <<t1>>)
       IN rebuildEdges(SetBoundary(s1.mesh, {v0, v1, s0.newId, s1.newId}))

tearEdge(M, v0, v1) ==
  LET e == getEdge(M, v0, v1) IN
  IF e = 0 \/ M.edges[e].isTorn THEN M
  ELSE LET M1 == [M EXCEPT !.edges[e].isTorn = TRUE, !.edges[e].isBoundary = TRUE] IN
       IF Len(M1.edges[e].triangles) = 2
       THEN LET t1 == M1.edges[e].triangles[2]
                s0 == splitVertex(M1, v0, <<t1>>)
                s1 == splitVertex(s0.mesh, v1, <<t1>>)
            IN rebuildEdges(SetBoundary(s1.mesh, {v0, v1, s0.newId, s1.newId}))
       ELSE rebuildEdges(M1)

\* the loop of insertVertexOnEdge over the triangles of the edge
RECURSIVE SplitEdgeTriangles(_, _, _, _, _, _)
SplitEdgeTriangles(M, tris, k, v0, v1, newId) ==
  IF k > Len(tris) THEN M
  ELSE LET triId == tris[k]
           tv == M.triangles[triId].vertices
           idx0 == IndexOf(tv, v0)
           idx1 == IndexOf(tv, v1)
       IN IF idx0 # -1 /\ idx1 # -1
          THEN LET otherV == tv[(3 - idx0 - idx1) + 1]
                   M1 == [M EXCEPT !.triangles[triId].vertices = ReplaceAt(@, idx1, newId)]
               IN SplitEdgeTriangles(addTriangle(M1, newId, v1, otherV), tris, k + 1, v0, v1, newId)
          ELSE SplitEdgeTriangles(M, tris, k + 1, v0, v1, newId)

Lerp(a, b, tn, td) == a + Quo(tn * (b - a), td)

\* t = tn / td
insertVertexOnEdge(M, v0, v1, tn, td) ==
  LET newId == M.nextVertexId
      M1 == [M EXCEPT !.nextVertexId = newId + 1]
  IN IF v0 \notin DOMAIN M.vertices \/ v1 \notin DOMAIN M.vertices
     THEN [mesh |-> M1, newId |-> NoVertex, threw |-> TRUE]
     ELSE LET vert0 == M.vertices[v0]
              vert1 == M.vertices[v1]
              newVertex == [id |-> newId,
                            position |-> [c \in 1..3 |-> Lerp(vert0.position[c], vert1.position[c], tn, td)],
                            uv |-> [c \in 1..2 |-> Lerp(vert0.uv[c], vert1.uv[c], tn, td)],
                            velocity |-> Zero3,
                            mass |-> Quo(vert0.mass + vert1.mass, 2),
                            pinned |-> FALSE,
                            isBoundary |-> TRUE,
                            isTearTip |-> TRUE]
              M2 == WithVertex(M1, newVertex)
              e == getEdge(M2, v0, v1)
              M3 == IF e # 0 THEN SplitEdgeTriangles(M2, M2.edges[e].triangles, 1, v0, v1, newId) ELSE M2
          IN [mesh |-> rebuildEdges(M3), newId |-> newId, threw |-> FALSE]

\* the first vertex in Map order that is a boundary vertex and not pinned;
\* vertices enter the Map in the order of their ids
StartVertex(M) ==
  LET free == {v \in DOMAIN M.vertices : M.vertices[v].isBoundary /\ ~M.vertices[v].pinned}
  IN IF free = {} THEN NoVertex ELSE CHOOSE v \in free : \A u \in free : v <= u

\* the other end of a boundary edge of current
NextVertex(edge, current) == IF edge.vertices[1] = current THEN edge.vertices[2] ELSE edge.vertices[1]

\* the while loop of getBoundaryLoop, entered with current not yet visited
RECURSIVE WalkBoundary(_, _, _)
WalkBoundary(M, current, boundary) ==
  The({IF open = <<>> THEN visited
       ELSE WalkBoundary(M, NextVertex(M.edges[open[1]], current), visited) :
       visited \in {Append(boundary, current)},
       open \in {SelectSeq(getVertexEdges(M, current),
                           LAMBDA i : M.edges[i].isBoundary
                                      /\ ~Includes(Append(boundary, current), NextVertex(M.edges[i], current)))}})

getBoundaryLoop_StopsAtStart(M) ==
  IF StartVertex(M) = NoVertex THEN <<>> ELSE <<StartVertex(M)>>

getBoundaryLoop(M) ==
  IF StartVertex(M) = NoVertex THEN <<>> ELSE WalkBoundary(M, StartVertex(M), <<>>)

(***************************************************************************)
(* TearSimulation                                                          *)
(***************************************************************************)
\* { x: 0, y: -0.5, z: 0 }
Gravity == <<0, -(FP \div 2), 0>>

RECURSIVE SumVec3(_, _)
SumVec3(s, k) == IF k > Len(s) THEN Zero3 ELSE vec3add(s[k], SumVec3(s, k + 1))

TriangleForces_SkipsOnlyZeroEdges(M, cfg, t) ==
  LET tv == M.triangles[t].vertices
      v0 == M.vertices[tv[1]]
      v1 == M.vertices[tv[2]]
      v2 == M.vertices[tv[3]]
      e1_3d == vec3sub(v1.position, v0.position)
      e2_3d == vec3sub(v2.position, v0.position)
      e1_uv == vec2sub(v1.uv, v0.uv)
      e2_uv == vec2sub(v2.uv, v0.uv)
  IN IF e1_uv = <<0, 0>> \/ e2_uv = <<0, 0>> THEN <<Zero3, Zero3, Zero3>>
     ELSE LET len1 == vec3length(e1_3d)
              len2 == vec3length(e2_3d)
              restLen1 == vec2length(e1_uv) * cfg.width
              restLen2 == vec2length(e2_uv) * cfg.height
              strain1 == Quo((len1 - restLen1) * FP, restLen1)
              strain2 == Quo((len2 - restLen2) * FP, restLen2)
              forceMag1 == Mul(Mul(strain1, cfg.stiffness), M.triangles[t].restArea)
              forceMag2 == Mul(Mul(strain2, cfg.stiffness), M.triangles[t].restArea)
              f1 == vec3scale(vec3normalize(e1_3d), -forceMag1)
              f2 == vec3scale(vec3normalize(e2_3d), -forceMag2)
          IN <<vec3add(f1, f2), vec3scale(f1, -FP), vec3scale(f2, -FP)>>

\* the forces one triangle adds to its three vertices, in the order of tri.vertices
TriangleForces(M, cfg, t) ==
  LET tv == M.triangles[t].vertices
      v0 == M.vertices[tv[1]]
      v1 == M.vertices[tv[2]]
      v2 == M.vertices[tv[3]]
      e1_3d == vec3sub(v1.position, v0.position)
      e2_3d == vec3sub(v2.position, v0.position)
      e1_uv == vec2sub(v1.uv, v0.uv)
      e2_uv == vec2sub(v2.uv, v0.uv)
      detRest == e1_uv[1] * e2_uv[2] - e1_uv[2] * e2_uv[1]
  IN IF Abs(detRest) < EpsilonSq THEN <<Zero3, Zero3, Zero3>>
     ELSE LET len1 == vec3length(e1_3d)
              len2 == vec3length(e2_3d)
              restLen1 == vec2length(e1_uv) * cfg.width
              restLen2 == vec2length(e2_uv) * cfg.height
              strain1 == Quo((len1 - restLen1) * FP, restLen1)
              strain2 == Quo((len2 - restLen2) * FP, restLen2)
              forceMag1 == Mul(Mul(strain1, cfg.stiffness), M.triangles[t].restArea)
              forceMag2 == Mul(Mul(strain2, cfg.stiffness), M.triangles[t].restArea)
              f1 == vec3scale(vec3normalize(e1_3d), -forceMag1)
              f2 == vec3scale(vec3normalize(e2_3d), -forceMag2)
          IN <<vec3add(f1, f2), vec3scale(f1, -FP), vec3scale(f2, -FP)>>

\* vertexForces after computeInternalForces: the sum, per vertex, of what the
\* triangles add to it (a vertex without an entry reads as zero in getForce)
computeInternalForces(M, cfg) ==
  LET tf == Table([t \in DOMAIN M.triangles |-> TriangleForces(M, cfg, t)])
      parts(v) == LET ts == getVertexTriangles(M, v)
                  IN [k \in 1..Len(ts) |-> tf[ts[k]][IndexOf(M.triangles[ts[k]].vertices, v) + 1]]
  IN Table([v \in DOMAIN M.vertices |-> SumVec3(parts(v), 1)])

applyExternalForces(M, cfg, forces, grabVertex, grabForce) ==
  Table([v \in DOMAIN M.vertices |->
    LET own == IF M.vertices[v].pinned THEN forces[v]
               ELSE vec3add(vec3add(forces[v], vec3scale(Gravity, M.vertices[v].mass)),
                            vec3scale(M.vertices[v].velocity, -cfg.damping))
    IN IF grabVertex # NoVertex /\ grabVertex = v THEN vec3add(own, grabForce) ELSE own])

getForce(forces, vertexId) == IF vertexId \in DOMAIN forces THEN forces[vertexId] ELSE Zero3

\* 0.001, the least UV distance of a force sample, in thousandths
MinSampleDistance == 1

\* step 1 of processTearTip: one sample per other vertex of every triangle at the tip
GatherForces(M, forces, tipVertex) ==
  LET ts == getVertexTriangles(M, tipVertex)
      others(t) == SelectSeq(M.triangles[t].vertices, LAMBDA id : id # tipVertex)
      all == [k \in 1..(2 * Len(ts)) |-> others(ts[(k + 1) \div 2])[((k - 1) % 2) + 1]]
      uvDir(o) == vec2sub(M.vertices[o].uv, M.vertices[tipVertex].uv)
      kept == SelectSeq(Upto(2 * Len(ts)), LAMBDA k : ~(vec2length(uvDir(all[k])) * 1000 < MinSampleDistance * FP))
  IN Table([k \in 1..Len(kept) |->
        [vertex |-> all[kept[k]],
         direction |-> vec2normalize(uvDir(all[kept[k]])),
         magnitude |-> Mul(vec3length(getForce(forces, all[kept[k]])), vec2length(uvDir(all[kept[k]])))]])

RECURSIVE SumForces(_, _)
SumForces(fs, k) ==
  IF k > Len(fs) THEN [dir |-> <<0, 0>>, mag |-> 0]
  ELSE LET rest == SumForces(fs, k + 1)
       IN [dir |-> vec2add(vec2scale(fs[k].direction, fs[k].magnitude), rest.dir), mag |-> fs[k].magnitude + rest.mag]

computeCluster(fs) ==
  LET sum == SumForces(fs, 1)
  IN [direction |-> vec2normalize(sum.dir), magnitude |-> sum.mag, forces |-> fs]

\* the seeds of clusterForces: the first pair, in loop order, with the largest
\* opposition above -1; the pair (0, 1) when there is none
ClusterSeeds(fs) ==
  LET pairs == {p \in (1..Len(fs)) \X (1..Len(fs)) : p[1] < p[2]}
      opposition(p) == -vec2dot(fs[p[1]].direction, fs[p[2]].direction)
      better == {p \in pairs : opposition(p) > -FP}
      before(p, q) == p[1] < q[1] \/ (p[1] = q[1] /\ p[2] <= q[2])
  IN IF better = {} THEN <<1, 2>>
     ELSE LET top == {p \in better : \A q \in better : opposition(q) <= opposition(p)}
          IN CHOOSE p \in top : \A q \in top : before(p, q)

clusterForces(fs) ==
  IF Len(fs) < 2 THEN <<>>
  ELSE LET seeds == ClusterSeeds(fs)
           seedA == fs[seeds[1]].direction
           seedB == fs[seeds[2]].direction
           inA(f) == vec2dot(f.direction, seedA) > vec2dot(f.direction, seedB)
       IN <<computeCluster(SelectSeq(fs, inA)), computeCluster(SelectSeq(fs, LAMBDA f : ~inA(f)))>>

computeTearDirection(clusterA, clusterB, tip, cfg) ==
  LET bisector == vec2bisector(clusterA.direction, clusterB.direction)
      perp == vec2perpendicular(bisector)
      tearDir == IF vec2dot(perp, tip.tearDirection) < 0 THEN vec2scale(perp, -FP) ELSE perp
  IN IF cfg.fiberAnisotropy > 0
     THEN LET fiber == cfg.fiberDirection
              fiberDot == Abs(vec2dot(tearDir, fiber))
              fiberBias == vec2scale(fiber, Mul(fiberDot, cfg.fiberAnisotropy))
          IN vec2normalize(vec2add(vec2scale(tearDir, FP - cfg.fiberAnisotropy), fiberBias))
     ELSE tearDir

computeEnergyRelease(clusterA, clusterB) ==
  LET opposition == -vec2dot(clusterA.direction, clusterB.direction)
      combinedMagnitude == Quo(clusterA.magnitude + clusterB.magnitude, 2)
  IN Mul(opposition, combinedMagnitude)

\* 0.3, the least alignment of an edge that is torn, in tenths
MinAlignment == 3

OtherEnd(e, v) == IF e.vertices[1] = v THEN e.vertices[2] ELSE e.vertices[1]

EdgeAlignment(M, e, tipVertex, direction) ==
  vec2dot(vec2normalize(vec2sub(M.vertices[OtherEnd(e, tipVertex)].uv, M.vertices[tipVertex].uv)), direction)

\* the edge propagateTear settles on (0 when every edge at the tip is torn or
\* there is none): the first edge, in Map order, with the largest alignment
BestEdge(M, tipVertex, direction) ==
  LET open == SelectSeq(getVertexEdges(M, tipVertex), LAMBDA i : ~M.edges[i].isTorn)
      al(i) == EdgeAlignment(M, M.edges[i], tipVertex, direction)
      top == SelectSeq(open, LAMBDA i : \A k \in 1..Len(open) : al(open[k]) <= al(i))
  IN IF Len(top) = 0 THEN 0 ELSE top[1]

propagateTear_NoLeastAlignment(M, tip, direction) ==
  The({IF best # 0
       THEN The({[mesh |-> [M1 EXCEPT !.vertices[OtherEnd(M.edges[best], tip.vertexId)].isTearTip = TRUE,
                                      !.vertices[OtherEnd(M.edges[best], tip.vertexId)].isBoundary = TRUE],
                  tip |-> [tip EXCEPT !.vertexId = OtherEnd(M.edges[best], tip.vertexId),
                                      !.uvPosition = M1.vertices[OtherEnd(M.edges[best], tip.vertexId)].uv],
                  torn |-> <<tip.vertexId, OtherEnd(M.edges[best], tip.vertexId)>>] :
                 M1 \in {tearEdge(M, tip.vertexId, OtherEnd(M.edges[best], tip.vertexId))}})
       ELSE [mesh |-> M, tip |-> tip, torn |-> <<>>] :
      best \in {BestEdge(M, tip.vertexId, direction)}})

\* result: the mesh and the tip afterwards, and the pair given to tearEdge (<<>> if none)
propagateTear(M, tip, direction) ==
  The({IF best # 0 /\ EdgeAlignment(M, M.edges[best], tip.vertexId, direction) * 10 > MinAlignment * FP
       THEN The({[mesh |-> [M1 EXCEPT !.vertices[OtherEnd(M.edges[best], tip.vertexId)].isTearTip = TRUE,
                                      !.vertices[OtherEnd(M.edges[best], tip.vertexId)].isBoundary = TRUE],
                  tip |-> [tip EXCEPT !.vertexId = OtherEnd(M.edges[best], tip.vertexId),
                                      !.uvPosition = M1.vertices[OtherEnd(M.edges[best], tip.vertexId)].uv],
                  torn |-> <<tip.vertexId, OtherEnd(M.edges[best], tip.vertexId)>>] :
                 M1 \in {tearEdge(M, tip.vertexId, OtherEnd(M.edges[best], tip.vertexId))}})
       ELSE [mesh |-> M, tip |-> tip, torn |-> <<>>] :
      best \in {BestEdge(M, tip.vertexId, direction)}})

\* what processTearTip reports when it returns before computing anything
Returned_TurnsTip(M, tip) ==
  [mesh |-> M, tip |-> [tip EXCEPT !.tearDirection = <<FP, 0>>],
   did |-> [early |-> TRUE, rate |-> 0, tearDir |-> <<0, 0>>, exceeded |-> FALSE,
            torn |-> <<>>, before |-> tip, mesh |-> M]]

Returned(M, tip) ==
  [mesh |-> M, tip |-> tip,
   did |-> [early |-> TRUE, rate |-> 0, tearDir |-> <<0, 0>>, exceeded |-> FALSE,
            torn |-> <<>>, before |-> tip, mesh |-> M]]

\* steps 3 to 5 of processTearTip, with the tear direction and the energy
\* release rate computed
Propagate(M, cfg, tip, dt, tearDir, rate) ==
  LET charged == [tip EXCEPT !.energy = @ + Mul(rate, dt)]
      exceeded == charged.energy > cfg.fractureThreshold
  IN The({[mesh |-> moved.mesh,
           tip |-> [moved.tip EXCEPT !.energy = IF exceeded THEN 0 ELSE @, !.tearDirection = tearDir],
           did |-> [early |-> FALSE, rate |-> rate, tearDir |-> tearDir, exceeded |-> exceeded,
                    torn |-> moved.torn, before |-> tip, mesh |-> M]] :
          moved \in {IF exceeded THEN propagateTear(M, charged, tearDir)
                     ELSE [mesh |-> M, tip |-> charged, torn |-> <<>>]}})

\* result: the mesh and the tip afterwards, and what the call did: whether it
\* returned early, the energy-release rate, the tear direction, whether the
\* threshold was exceeded, the pair given to tearEdge, the mesh it started from
processTearTip(M, cfg, forces, tip, dt) ==
  IF tip.vertexId \notin DOMAIN M.vertices \/ ~M.vertices[tip.vertexId].isBoundary THEN Returned(M, tip)
  ELSE The({IF Len(clusters) < 2 THEN Returned(M, tip)
            ELSE The({Propagate(M, cfg, tip, dt, tearDir, rate) :
                      tearDir \in {computeTearDirection(clusters[1], clusters[2], tip, cfg)},
                      rate \in {computeEnergyRelease(clusters[1], clusters[2])}}) :
           clusters \in {clusterForces(GatherForces(M, forces, tip.vertexId))}})

\* the loop of step over tearTips
RECURSIVE ProcessTips(_, _, _, _, _, _, _)
ProcessTips(M, cfg, forces, tips, dt, k, log) ==
  IF k > Len(tips) THEN [mesh |-> M, tips |-> tips, log |-> log]
  ELSE The({The({ProcessTips(r.mesh, cfg, forces, nextTips, dt, k + 1, nextLog) :
                 nextTips \in {[tips EXCEPT ![k] = r.tip]}, nextLog \in {Append(log, r.did)}}) :
            r \in {processTearTip(M, cfg, forces, tips[k], dt)}})

\* the range [-0.5, 0.5] of position.z
MaxDepth == FP \div 2

\* the non-finite doubles, as integers outside the range of the fixed-point values
PosInf == 2147483647
NegInf == -2147483647
NaN == 2147483646
NonFinite == {NaN, PosInf, NegInf}

\* x * (1 / 0) for a finite x: 1 / 0 is Infinity, and 0 * Infinity is NaN
TimesInverseOfZero(x) == IF x = 0 THEN NaN ELSE IF x > 0 THEN PosInf ELSE NegInf

\* x * k for a finite k
Times(x, k) ==
  IF x \notin NonFinite THEN Mul(x, k)
  ELSE IF x = NaN \/ k = 0 THEN NaN
  ELSE IF k > 0 THEN x ELSE -x

\* a + x for a finite a
Plus(a, x) == IF x \in NonFinite THEN x ELSE a + x

\* Math.max(-0.5, Math.min(0.5, z))
ClampDepth(z) == IF z = NaN THEN NaN ELSE Max(-MaxDepth, Min(MaxDepth, z))

\* the body of the loop of integrate for a vertex that is not skipped
Integrated(vertex, force, dt) ==
  LET acc == IF vertex.mass = 0 THEN [c \in 1..3 |-> TimesInverseOfZero(force[c])]
             ELSE vec3scale(force, Quo(FP * FP, vertex.mass))
      velocity == [c \in 1..3 |-> Plus(vertex.velocity[c], Times(acc[c], dt))]
      position == [c \in 1..3 |-> Plus(vertex.position[c], Times(velocity[c], dt))]
  IN [vertex EXCEPT !.velocity = <<velocity[1], velocity[2], velocity[3]>>,
                    !.position = <<position[1], position[2], ClampDepth(position[3])>>]

integrate_MovesPinned(M, forces, dt) ==
  [M EXCEPT !.vertices = Table([v \in DOMAIN M.vertices |-> Integrated(M.vertices[v], getForce(forces, v), dt)])]

integrate(M, forces, dt) ==
  [M EXCEPT !.vertices = Table([v \in DOMAIN M.vertices |->
     IF M.vertices[v].pinned THEN M.vertices[v]
     ELSE Integrated(M.vertices[v], getForce(forces, v), dt)])]

\* result of step(dt): mesh, tearTips, vertexForces and what each processTearTip did
step(M, cfg, tips, grabVertex, grabForce, dt) ==
  The({The({[mesh |-> integrate(r.mesh, forces, dt), tips |-> r.tips, forces |-> forces, log |-> r.log] :
            r \in {ProcessTips(M, cfg, forces, tips, dt, 1, <<>>)}}) :
       forces \in {applyExternalForces(M, cfg, computeInternalForces(M, cfg), grabVertex, grabForce)}})

startGrab_TakesPinned(M, cfg, uvPosition) ==
  LET dist(v) == vec2length(vec2sub(M.vertices[v].uv, uvPosition))
      near == {v \in DOMAIN M.vertices : dist(v) < cfg.grabRadius}
  IN IF near = {} THEN NoVertex
     ELSE CHOOSE v \in near : \A w \in near : dist(v) < dist(w) \/ (dist(v) = dist(w) /\ v <= w)

\* the vertex startGrab settles on: the first, in Map order, of the nearest
\* non-pinned vertices within grabRadius
startGrab(M, cfg, uvPosition) ==
  LET dist(v) == vec2length(vec2sub(M.vertices[v].uv, uvPosition))
      near == {v \in DOMAIN M.vertices : ~M.vertices[v].pinned /\ dist(v) < cfg.grabRadius}
  IN IF near = {} THEN NoVertex
     ELSE CHOOSE v \in near : \A w \in near : dist(v) < dist(w) \/ (dist(v) = dist(w) /\ v <= w)

initiateTearAt(M, tips, vertexId) ==
  IF vertexId \notin DOMAIN M.vertices \/ ~M.vertices[vertexId].isBoundary THEN [mesh |-> M, tips |-> tips]
  ELSE IF \E k \in 1..Len(tips) : tips[k].vertexId = vertexId THEN [mesh |-> M, tips |-> tips]
  ELSE [mesh |-> [M EXCEPT !.vertices[vertexId].isTearTip = TRUE],
        tips |-> Append(tips, [vertexId |-> vertexId, uvPosition |-> M.vertices[vertexId].uv,
                               tearDirection |-> <<0, FP>>, energy |-> 0])]

updateGrab_AnyForce(M, cfg, tips, grabVertex, targetPosition) ==
  LET vertex == M.vertices[grabVertex]
      force == vec3scale(vec3sub(targetPosition, vertex.position), cfg.grabStiffness)
      r == IF vertex.isBoundary THEN initiateTearAt(M, tips, grabVertex) ELSE [mesh |-> M, tips |-> tips]
  IN [mesh |-> r.mesh, tips |-> r.tips, grabForce |-> force]

\* result of updateGrab with a vertex grabbed: grabForce, mesh and tearTips
updateGrab(M, cfg, tips, grabVertex, targetPosition) ==
  LET vertex == M.vertices[grabVertex]
      force == vec3scale(vec3sub(targetPosition, vertex.position), cfg.grabStiffness)
      r == IF vec3length(force) > cfg.fractureThreshold * 2 /\ vertex.isBoundary
           THEN initiateTearAt(M, tips, grabVertex)
           ELSE [mesh |-> M, tips |-> tips]
  IN [mesh |-> r.mesh, tips |-> r.tips, grabForce |-> force]

(***************************************************************************)
(* The drag controllers: PaperTear (peel, detach, fall) and                *)
(* PaperController (curl, tear).  Screen coordinates are whole pixels;     *)
(* progress, curl, rotations and positions are in thousandths.  Of an      *)
(* object the fields that decide what a handler does are kept, and the     *)
(* targets; what is only drawn (current transform, opacity, velocities,    *)
(* the place of the detached sheet) is left out, and so is update(), which *)
(* writes nothing else.  Two fields are added to each object: the timers   *)
(* of setTimeout that have not fired yet, and the calls made of the        *)
(* callbacks, in order.                                                    *)
(***************************************************************************)
Milli == 1000
\* Math.PI
Pi == 3142
\* full peel at 200 px of drag
FullPeelDistance == 200
\* dragProgress > 0.6 detaches during the drag
DetachProgress == 600
\* dragProgress > 0.4 tears on release
ReleaseProgress == 400

Zero2 == <<0, 0>>

Distance(a, b) == Sqrt((b[1] - a[1]) * (b[1] - a[1]) + (b[2] - a[2]) * (b[2] - a[2]))

\* the fields of a PaperTear after its constructor
NewPaperTear ==
  [isDragging |-> FALSE, isFalling |-> FALSE, isDetached |-> FALSE, isLocked |-> FALSE,
   tearCompleted |-> FALSE, detachedCanvas |-> FALSE,
   dragStart |-> Zero2, dragCurrent |-> Zero2,
   targetRotation |-> Zero3, targetPosition |-> Zero2,
   fallFrames |-> 0, frameRequested |-> FALSE, visible |-> TRUE,
   timers |-> 0, calls |-> <<>>]

dragProgress(p) == Min(Milli, Quo(Distance(p.dragStart, p.dragCurrent) * Milli, FullPeelDistance))

PaperTear_isInteractive(p) == ~p.isFalling /\ ~p.isDetached /\ ~p.isLocked /\ ~p.tearCompleted

removeDetachedPaper(p) == [p EXCEPT !.detachedCanvas = FALSE, !.isDetached = FALSE]

prepareForNextTear_KeepsTearCompleted(p) ==
  [p EXCEPT !.targetRotation = Zero3, !.targetPosition = Zero2, !.visible = TRUE,
            !.isDragging = FALSE, !.isDetached = FALSE, !.isFalling = FALSE,
            !.fallFrames = 0,
            !.calls = Append(@, "onFallComplete")]

prepareForNextTear(p) ==
  [p EXCEPT !.targetRotation = Zero3, !.targetPosition = Zero2, !.visible = TRUE,
            !.isDragging = FALSE, !.isDetached = FALSE, !.isFalling = FALSE,
            !.fallFrames = 0, !.tearCompleted = FALSE,
            !.calls = Append(@, "onFallComplete")]

detachPaper(p) ==
  [p EXCEPT !.visible = FALSE, !.detachedCanvas = TRUE, !.isDetached = TRUE,
            !.tearCompleted = TRUE,
            !.calls = IF p.tearCompleted THEN @ ELSE Append(@, "onTearComplete")]

\* one frame of the fall; gone says that the sheet has left the screen
\* (detachedPosition.y > window.innerHeight + 200), lastFrame that fallTime has
\* passed 2.5
animateFallingDetached(p, gone, lastFrame) ==
  IF ~p.isFalling \/ ~p.detachedCanvas
  THEN [removeDetachedPaper(p) EXCEPT !.isFalling = FALSE, !.frameRequested = FALSE]
  ELSE IF gone \/ lastFrame
       THEN prepareForNextTear(removeDetachedPaper([p EXCEPT !.fallFrames = @ + 1, !.frameRequested = FALSE]))
       ELSE [p EXCEPT !.fallFrames = @ + 1, !.frameRequested = TRUE]

startFalling(p, gone) ==
  IF p.isFalling THEN p
  ELSE LET q == [p EXCEPT !.isFalling = TRUE, !.fallFrames = 0]
       IN IF q.isDetached THEN animateFallingDetached(q, gone, FALSE) ELSE q

PaperTear_startDrag(p, screen) ==
  IF p.isFalling \/ p.isLocked THEN p
  ELSE IF p.isDetached THEN [p EXCEPT !.isDragging = TRUE, !.dragCurrent = screen]
  ELSE [p EXCEPT !.isDragging = TRUE, !.dragStart = screen, !.dragCurrent = screen]

PaperTear_updateDrag(p, screen) ==
  IF ~p.isDragging \/ p.isFalling THEN p
  ELSE LET q == [p EXCEPT !.dragCurrent = screen]
           dragX == screen[1] - p.dragStart[1]
           dragY == screen[2] - p.dragStart[2]
           r == [q EXCEPT !.targetRotation = <<Quo(Quo(dragProgress(q) * Pi, Milli) * 35, 100),
                                               Quo(dragX * Pi * 10, 400 * 100),
                                               Quo(dragX * Pi * 25, 300 * 100)>>,
                          !.targetPosition = <<dragX * 8, -Quo(dragY * 24, 10)>>]
       IN IF q.isDetached /\ q.detachedCanvas THEN q
          ELSE IF dragProgress(q) > DetachProgress /\ ~r.isDetached THEN detachPaper(r) ELSE r

PaperTear_endDrag_KeepsTargets(p, gone) ==
  IF ~p.isDragging THEN p
  ELSE LET q == [p EXCEPT !.isDragging = FALSE]
       IN IF q.isDetached THEN startFalling(q, gone)
          ELSE IF dragProgress(q) > ReleaseProgress
               THEN [detachPaper(q) EXCEPT !.timers = @ + 1]
               ELSE q

PaperTear_endDrag(p, gone) ==
  IF ~p.isDragging THEN p
  ELSE LET q == [p EXCEPT !.isDragging = FALSE]
       IN IF q.isDetached THEN startFalling(q, gone)
          ELSE IF dragProgress(q) > ReleaseProgress
               THEN [detachPaper(q) EXCEPT !.timers = @ + 1]
               ELSE [q EXCEPT !.targetRotation = Zero3, !.targetPosition = Zero2]

PaperTear_updateDate(p) == [p EXCEPT !.visible = TRUE]

\* velocityHistory.length > 5 drops the oldest sample
HistoryLength == 5
\* fewer samples than this give a release velocity of zero
MinSamples == 2

FallCompletes(p) == Len(SelectSeq(p.calls, LAMBDA c : c = "onFallComplete"))

\* velocityHistory after a call that took the PaperTear from p to q and left
\* the samples as h: prepareForNextTear, when it ran, has emptied them
AfterFall(p, q, h) == IF FallCompletes(q) > FallCompletes(p) THEN <<>> ELSE h

\* velocityHistory after startDrag: emptied in both branches that start a drag
startDrag_velocityHistory(p, h) == IF p.isFalling \/ p.isLocked THEN h ELSE <<>>

updateDrag_velocityHistory_DropsNewest(p, h, screen) ==
  IF ~p.isDragging \/ p.isFalling THEN h
  ELSE LET pushed == Append(h, <<screen[1] - p.dragCurrent[1], screen[2] - p.dragCurrent[2]>>)
       IN IF Len(pushed) > HistoryLength THEN SubSeq(pushed, 1, HistoryLength) ELSE pushed

\* velocityHistory after updateDrag: the pointer delta is pushed, then shift()
updateDrag_velocityHistory(p, h, screen) ==
  IF ~p.isDragging \/ p.isFalling THEN h
  ELSE LET pushed == Append(h, <<screen[1] - p.dragCurrent[1], screen[2] - p.dragCurrent[2]>>)
       IN IF Len(pushed) > HistoryLength THEN Tail(pushed) ELSE pushed

RECURSIVE SumSamples(_, _)
SumSamples(h, i) == IF h = <<>> THEN 0 ELSE h[1][i] + SumSamples(Tail(h), i)

calculateReleaseVelocity(h) ==
  IF Len(h) < MinSamples THEN Zero2
  ELSE <<Quo(SumSamples(h, 1) * Milli, Len(h)), Quo(SumSamples(h, 2) * Milli, Len(h))>>

\* releaseVelocity after endDrag, r before it
endDrag_releaseVelocity(p, h, r) == IF ~p.isDragging THEN r ELSE calculateReleaseVelocity(h)

\* targetCurl is dragDistance / 120 and grabStrength is dragDistance / 80
CurlDistance == 120
GrabDistance == 80
\* targetCurl > 0.85 tears during the drag
AutoTearCurl == 850
\* targetCurl > 0.6 tears on release
ReleaseCurl == 600
\* the least drag, in pixels, that sets the direction
MinDirectionDistance == 5

\* the fields of a PaperController after its constructor
NewPaperController ==
  [isDragging |-> FALSE, isLocked |-> FALSE, tearInProgress |-> FALSE,
   dragStart |-> Zero2, dragCurrent |-> Zero2, dragDirection |-> <<0, Milli>>,
   targetCurl |-> 0, grabStrength |-> 0, visible |-> TRUE,
   timers |-> 0, calls |-> <<>>]

PaperController_isInteractive(c) == ~c.isLocked /\ ~c.tearInProgress

triggerTear(c) ==
  IF c.tearInProgress THEN c
  ELSE [c EXCEPT !.tearInProgress = TRUE, !.targetCurl = Milli, !.timers = @ + 1]

PaperController_startDrag(c, screen) ==
  IF ~PaperController_isInteractive(c) THEN c
  ELSE [c EXCEPT !.isDragging = TRUE, !.dragStart = screen, !.dragCurrent = screen]

PaperController_updateDrag(c, screen) ==
  IF ~c.isDragging \/ c.tearInProgress THEN c
  ELSE LET dragX == screen[1] - c.dragStart[1]
           dragY == c.dragStart[2] - screen[2]
           dragDistance == Distance(c.dragStart, screen)
           d == [c EXCEPT !.dragCurrent = screen,
                          !.dragDirection = IF dragDistance > MinDirectionDistance
                                            THEN <<Quo(dragX * Milli, dragDistance), Quo(dragY * Milli, dragDistance)>>
                                            ELSE @,
                          !.targetCurl = Min(Milli, Quo(dragDistance * Milli, CurlDistance)),
                          !.grabStrength = Min(Milli, Quo(dragDistance * Milli, GrabDistance))]
       IN IF d.targetCurl > AutoTearCurl /\ ~d.tearInProgress THEN triggerTear(d) ELSE d

PaperController_endDrag(c) ==
  IF ~c.isDragging THEN c
  ELSE LET d == [c EXCEPT !.isDragging = FALSE]
       IN IF d.targetCurl > ReleaseCurl /\ ~d.tearInProgress THEN triggerTear(d)
          ELSE IF ~d.tearInProgress THEN [d EXCEPT !.targetCurl = 0, !.grabStrength = 0]
          ELSE d

\* the callback of the 500 ms timer of triggerTear
TearTimeout(c) == [c EXCEPT !.timers = @ - 1, !.visible = FALSE, !.calls = Append(@, "onTearComplete")]

PaperController_updateDate(c) ==
  [c EXCEPT !.targetCurl = 0, !.grabStrength = 0, !.tearInProgress = FALSE,
            !.isDragging = FALSE, !.visible = TRUE]

(***************************************************************************)
(* State                                                                   *)
(***************************************************************************)
(* CalendarScene and its SoundManager                                      *)
(***************************************************************************)
\* the number of tear sounds
SoundCount == 7

NoSound == -1

\* isLoaded, sounds (the length of the sounds array), soundIndex (its
\* currentIndex) and resolved (loadPromise is resolved) are the
\* SoundManager's; waiting and playing are the calls of playTearSound that
\* stand at 'await this.loadPromise' and at 'await sound.play()', each named
\* by the number of its tear; currentIndex, locked and disposed are the
\* scene's; dateChanges counts the calls of onDateChange after the first;
\* tears logs for every completed tear whether the sounds were loaded when it
\* completed and the sound whose playback was started for it
NewCalendarScene ==
  [isLoaded |-> FALSE, sounds |-> SoundCount, soundIndex |-> 0, resolved |-> FALSE,
   waiting |-> <<>>, playing |-> <<>>,
   currentIndex |-> 0, locked |-> FALSE, disposed |-> FALSE, dateChanges |-> 0, tears |-> <<>>]

\* the end of loadSounds: Promise.all has resolved
loadSounds_Done(c) == [c EXCEPT !.isLoaded = TRUE, !.resolved = TRUE]

\* playTearSound from 'if (this.sounds.length === 0)' to 'await sound.play()'
\* for the call of tear k; started: play() starts the playback rather than
\* being rejected
playTearSound_Play(c, k, started) ==
  IF c.sounds = 0 THEN c
  ELSE [c EXCEPT !.tears[k].sound = IF started THEN c.soundIndex ELSE NoSound,
                 !.playing = Append(@, k)]

\* playTearSound up to its first await, for the call of tear k
playTearSound(c, k, started) ==
  IF ~c.isLoaded THEN [c EXCEPT !.waiting = Append(@, k)]
  ELSE playTearSound_Play(c, k, started)

\* playTearSound after 'await sound.play()'; x % 0 is NaN
playTearSound_Advance(c) ==
  [c EXCEPT !.playing = Tail(@),
            !.soundIndex = IF c.sounds = 0 \/ @ = NaN THEN NaN ELSE (@ + 1) % c.sounds]

\* handleTearComplete without the lock() of the page that shows the last date
handleTearComplete_LocksLate(c, dates, started) ==
  LET k == Len(c.tears) + 1
      logged == [c EXCEPT !.tears = Append(@, [loaded |-> c.isLoaded, sound |-> NoSound])]
      rung == playTearSound(logged, k, started)
  IN IF rung.currentIndex >= dates - 1 THEN [rung EXCEPT !.locked = TRUE]
     ELSE [rung EXCEPT !.currentIndex = @ + 1,
                       !.dateChanges = @ + 1]

\* dates: the number of pages of the calendar
handleTearComplete(c, dates, started) ==
  LET k == Len(c.tears) + 1
      logged == [c EXCEPT !.tears = Append(@, [loaded |-> c.isLoaded, sound |-> NoSound])]
      rung == playTearSound(logged, k, started)
  IN IF rung.currentIndex >= dates - 1 THEN [rung EXCEPT !.locked = TRUE]
     ELSE [rung EXCEPT !.currentIndex = @ + 1,
                       !.locked = @ \/ (rung.currentIndex + 1 >= dates - 1),
                       !.dateChanges = @ + 1]

\* CalendarScene.dispose, as far as the SoundManager goes
SoundManager_dispose(c) ==
  [c EXCEPT !.sounds = 0, !.soundIndex = 0, !.isLoaded = FALSE, !.disposed = TRUE]

(***************************************************************************)
VARIABLES
  config,          \* PaperConfig
  vertices,        \* PaperMesh.vertices
  triangles,       \* PaperMesh.triangles
  edges,           \* PaperMesh.edges
  nextVertexId,    \* PaperMesh.nextVertexId
  nextTriangleId,  \* PaperMesh.nextTriangleId
  tearTips,        \* TearSimulation.tearTips
  grabVertex,      \* TearSimulation.grabVertex (NoVertex for null)
  grabForce,       \* TearSimulation.grabForce
  vertexForces,    \* TearSimulation.vertexForces
  propagated,      \* per tear tip: has its vertexId ever changed
  dragController,  \* the class of the drag controller of the page, "none" without one
  paperTear,       \* the fields of the PaperTear
  paperController, \* the fields of the PaperController
  calendarScene,   \* the date and sound fields of the CalendarScene and its SoundManager
  velocityHistory, \* PaperTear.velocityHistory, the x and y of its samples
  releaseVelocity, \* PaperTear.releaseVelocity, in thousandths of a pixel
  last,            \* the call that produced this state, its arguments and the mesh it started from
  calls            \* number of calls made so far

simVars == <<tearTips, grabVertex, grabForce, vertexForces, propagated>>

velocityVars == <<velocityHistory, releaseVelocity>>

dragVars == <<dragController, paperTear, paperController, calendarScene, velocityVars>>

vars == <<config, vertices, triangles, edges, nextVertexId, nextTriangleId, simVars, dragVars, last, calls>>

Mesh == [vertices |-> vertices, triangles |-> triangles, edges |-> edges,
         nextVertexId |-> nextVertexId, nextTriangleId |-> nextTriangleId]

SetMesh(M) ==
  /\ vertices' = M.vertices
  /\ triangles' = M.triangles
  /\ edges' = M.edges
  /\ nextVertexId' = M.nextVertexId
  /\ nextTriangleId' = M.nextTriangleId

Sides == {<<1, 1>>, <<2, 1>>, <<1, 2>>}

\* the repository fixes no PaperConfig; these are the values the grids are run with
BaseConfig ==
  [width |-> 1, height |-> 1, subdivisions |-> 1,
   stiffness |-> 10 * FP, bendingStiffness |-> FP \div 10, damping |-> FP \div 10, density |-> FP,
   fractureThreshold |-> 4, tearResistance |-> FP,
   fiberDirection |-> <<FP, 0>>, fiberAnisotropy |-> 0,
   grabRadius |-> (3 * FP) \div 4, grabStiffness |-> 5 * FP]

\* the fields of a TearSimulation after construction
\* a page without a drag controller
NoDragController ==
  /\ dragController = "none"
  /\ paperTear = NewPaperTear
  /\ paperController = NewPaperController
  /\ calendarScene = NewCalendarScene
  /\ velocityHistory = <<>>
  /\ releaseVelocity = Zero2

NewSimulation ==
  /\ tearTips = <<>>
  /\ grabVertex = NoVertex
  /\ grabForce = Zero3
  /\ vertexForces = <<>>
  /\ propagated = <<>>

Configs ==
  {[BaseConfig EXCEPT !.width = wh[1], !.height = wh[2], !.subdivisions = s] :
     wh \in Sides, s \in 1..MaxSubdivisions}

InitMesh ==
  /\ config \in Configs
  /\ LET M == buildInitialMesh(config) IN
       /\ vertices = M.vertices
       /\ triangles = M.triangles
       /\ edges = M.edges
       /\ nextVertexId = M.nextVertexId
       /\ nextTriangleId = M.nextTriangleId
  /\ NewSimulation
  /\ NoDragController
  /\ last = [op |-> "new", args |-> <<>>, pre |-> <<>>, threw |-> FALSE, newId |-> NoVertex, prev |-> <<>>,
             clean |-> TRUE]
  /\ calls = 0

\* the argument pairs tried for tearEdge and insertVertexOnEdge: every edge in
\* both orders, a pair that is usually no edge, and a pair with an unknown id
EdgeArgs ==
  {edges[i].vertices : i \in 1..Len(edges)}
    \cup {<<edges[i].vertices[2], edges[i].vertices[1]>> : i \in 1..Len(edges)}
    \cup {<<0, nextVertexId - 1>>, <<0, nextVertexId>>}

\* the triangle ids tried for trianglesToMove with vertex v: the triangles
\* around v, the first triangle away from v, and an unknown id
MoveIds(v) ==
  LET around == {t \in DOMAIN triangles : Includes(triangles[t].vertices, v)}
      away == DOMAIN triangles \ around
  IN around \cup (IF away = {} THEN {} ELSE {CHOOSE t \in away : \A u \in away : t <= u}) \cup {nextTriangleId}

\* the lists tried for trianglesToMove: each of these ids alone, and each after
\* the first of them
MoveLists(v) ==
  LET first == CHOOSE t \in MoveIds(v) : \A u \in MoveIds(v) : t <= u
  IN {<<a>> : a \in MoveIds(v)} \cup {<<first, b>> : b \in MoveIds(v)}

CanCall == calls < MaxMeshOps /\ nextVertexId < MaxVertices

SplitVertex ==
  /\ CanCall
  /\ \E vertexId \in 0..nextVertexId : \E trianglesToMove \in MoveLists(vertexId) :
       LET r == splitVertex(Mesh, vertexId, trianglesToMove) IN
         /\ SetMesh(r.mesh)
         /\ last' = [op |-> "splitVertex", args |-> <<vertexId, trianglesToMove>>, pre |-> Mesh, threw |-> r.threw, newId |-> r.newId, prev |-> <<last.op, last.args>>,
                    clean |-> last.clean /\ ~r.threw]
  /\ calls' = calls + 1
  /\ UNCHANGED <<dragVars, config, simVars>>

TearEdge ==
  /\ CanCall
  /\ \E a \in EdgeArgs :
       /\ SetMesh(tearEdge(Mesh, a[1], a[2]))
       /\ last' = [op |-> "tearEdge", args |-> a, pre |-> Mesh, threw |-> FALSE, newId |-> NoVertex, prev |-> <<last.op, last.args>>,
                    clean |-> last.clean]
  /\ calls' = calls + 1
  /\ UNCHANGED <<dragVars, config, simVars>>

InsertVertexOnEdge ==
  /\ CanCall
  /\ \E a \in EdgeArgs : \E t \in TValues :
       LET r == insertVertexOnEdge(Mesh, a[1], a[2], t[1], t[2]) IN
         /\ SetMesh(r.mesh)
         /\ last' = [op |-> "insertVertexOnEdge", args |-> <<a[1], a[2], t>>, pre |-> Mesh, threw |-> r.threw, newId |-> r.newId, prev |-> <<last.op, last.args>>,
                    clean |-> last.clean /\ ~r.threw]
  /\ calls' = calls + 1
  /\ UNCHANGED <<dragVars, config, simVars>>

\* the boundary is read after any number of calls; the read changes nothing,
\* so a run is followed no further than the read. pre is the mesh read
GetBoundaryLoop ==
  /\ last.op # "getBoundaryLoop"
  /\ last' = [op |-> "getBoundaryLoop", args |-> <<>>, pre |-> Mesh, threw |-> FALSE, newId |-> NoVertex,
              prev |-> <<last.op, last.args>>, clean |-> last.clean, loop |-> getBoundaryLoop(Mesh)]
  /\ calls' = MaxMeshOps
  /\ UNCHANGED <<dragVars, config, simVars, vertices, triangles, edges, nextVertexId, nextTriangleId>>

NextMesh == SplitVertex \/ TearEdge \/ InsertVertexOnEdge \/ GetBoundaryLoop

SpecMesh == InitMesh /\ [][NextMesh]_vars

(***************************************************************************)
(* A TearSimulation on a freshly built mesh                                *)
(***************************************************************************)
\* the sheets a simulation is run on: a unit square, with and without grain
\* along the v axis, one with the grain pointing down the v axis, and a single
\* cell of a sheet without mass
SimConfigs ==
  {[BaseConfig EXCEPT !.subdivisions = s, !.fiberDirection = <<0, FP>>, !.fiberAnisotropy = a] :
     s \in 1..MaxSubdivisions, a \in {0, FP}}
    \cup {[BaseConfig EXCEPT !.subdivisions = MaxSubdivisions, !.fiberDirection = <<0, -FP>>,
                             !.fiberAnisotropy = FP]}
    \cup {[BaseConfig EXCEPT !.density = 0]}

\* the values of dt tried for step: 0.1
Dts == {FP \div 10}

\* the UV points tried for startGrab: a lower corner, the middle of the pinned
\* upper edge, and a point off the sheet
GrabPoints == {<<0, 0>>, <<FP \div 2, FP>>, <<3 * FP, 3 * FP>>}

\* the targets tried for updateGrab: down and towards the viewer, and the
\* lower left corner of a unit sheet at rest
Targets == {<<0, -FP, FP \div 2>>, <<-(FP \div 2), -(FP \div 2), 0>>}

\* the vertex ids tried for initiateTearAt: one on the lower edge, one on the
\* pinned upper edge, one in between, and an unknown id
TearSites == {1, nextVertexId - 2, (nextVertexId - 1) \div 2, nextVertexId}

\* no position or velocity is NaN or infinite; a run is followed up to the
\* first state where one is
Finite ==
  \A v \in DOMAIN vertices : \A c \in 1..3 :
    vertices[v].position[c] \notin NonFinite /\ vertices[v].velocity[c] \notin NonFinite

CanStep == Finite /\ calls < MaxSteps + MaxSimCalls /\ last.steps < MaxSteps
CanSimCall == Finite /\ calls < MaxSteps + MaxSimCalls /\ calls - last.steps < MaxSimCalls

\* the pairs of vertex ids given to tearEdge by the tips of a step
TornPairs(did) == {{did[k].torn[1], did[k].torn[2]} : k \in {i \in 1..Len(did) : did[i].torn # <<>>}}

\* committed: the pairs torn by the calls before this one
Called(op, args, did) ==
  [op |-> op, args |-> args, pre |-> Mesh, threw |-> FALSE, newId |-> NoVertex,
   prev |-> <<last.op, last.args>>, tips |-> tearTips, grabForce |-> grabForce, did |-> did,
   steps |-> last.steps + (IF op = "step" THEN 1 ELSE 0),
   committed |-> last.committed \cup TornPairs(last.did)]

Init ==
  /\ config \in SimConfigs
  /\ LET M == buildInitialMesh(config) IN
       /\ vertices = M.vertices
       /\ triangles = M.triangles
       /\ edges = M.edges
       /\ nextVertexId = M.nextVertexId
       /\ nextTriangleId = M.nextTriangleId
  /\ NewSimulation
  /\ NoDragController
  /\ last = [op |-> "new", args |-> <<>>, pre |-> <<>>, threw |-> FALSE, newId |-> NoVertex,
             prev |-> <<>>, tips |-> <<>>, grabForce |-> Zero3, did |-> <<>>, steps |-> 0,
             committed |-> {}]
  /\ calls = 0

Step ==
  /\ CanStep
  /\ \E dt \in Dts :
       \E r \in {step(Mesh, config, tearTips, grabVertex, grabForce, dt)} :
         /\ SetMesh(r.mesh)
         /\ tearTips' = r.tips
         /\ vertexForces' = r.forces
         /\ propagated' = [k \in 1..Len(tearTips) |-> propagated[k] \/ r.tips[k].vertexId # tearTips[k].vertexId]
         /\ last' = Called("step", <<dt>>, r.log)
  /\ calls' = calls + 1
  /\ UNCHANGED <<dragVars, config, grabVertex, grabForce>>

StartGrab ==
  /\ CanSimCall
  /\ \E uvPosition \in GrabPoints :
       /\ grabVertex' = startGrab(Mesh, config, uvPosition)
       /\ last' = Called("startGrab", <<uvPosition>>, <<>>)
  /\ calls' = calls + 1
  /\ UNCHANGED <<dragVars, config, vertices, triangles, edges, nextVertexId, nextTriangleId, tearTips, grabForce, vertexForces, propagated>>

UpdateGrab ==
  /\ CanSimCall
  /\ \E targetPosition \in Targets :
       /\ IF grabVertex = NoVertex
          THEN UNCHANGED <<vertices, triangles, edges, nextVertexId, nextTriangleId, tearTips, grabForce, propagated>>
          ELSE LET r == updateGrab(Mesh, config, tearTips, grabVertex, targetPosition) IN
                 /\ SetMesh(r.mesh)
                 /\ tearTips' = r.tips
                 /\ grabForce' = r.grabForce
                 /\ propagated' = [k \in 1..Len(r.tips) |-> k <= Len(tearTips) /\ propagated[k]]
       /\ last' = Called("updateGrab", <<targetPosition>>, <<>>)
  /\ calls' = calls + 1
  /\ UNCHANGED <<dragVars, config, grabVertex, vertexForces>>

EndGrab ==
  /\ CanSimCall
  /\ grabVertex' = NoVertex
  /\ grabForce' = Zero3
  /\ last' = Called("endGrab", <<>>, <<>>)
  /\ calls' = calls + 1
  /\ UNCHANGED <<dragVars, config, vertices, triangles, edges, nextVertexId, nextTriangleId, tearTips, vertexForces, propagated>>

InitiateTearAt ==
  /\ CanSimCall
  /\ \E vertexId \in TearSites :
       LET r == initiateTearAt(Mesh, tearTips, vertexId) IN
         /\ SetMesh(r.mesh)
         /\ tearTips' = r.tips
         /\ propagated' = [k \in 1..Len(r.tips) |-> k <= Len(tearTips) /\ propagated[k]]
         /\ last' = Called("initiateTearAt", <<vertexId>>, <<>>)
  /\ calls' = calls + 1
  /\ UNCHANGED <<dragVars, config, grabVertex, grabForce, vertexForces>>

Next == Step \/ StartGrab \/ UpdateGrab \/ EndGrab \/ InitiateTearAt

Spec == Init /\ [][Next]_vars

(***************************************************************************)
(* A TearSimulation on a mesh whose Maps were filled by hand: the vertices  *)
(* and triangles Maps of PaperMesh are public, so the caller can replace    *)
(* the grid by one triangle of its own                                      *)
(***************************************************************************)
\* the rest-UV points of the hand-made triangle: three on the line v = 0
\* and one off it
TriangleUvs == {<<0, 0>>, <<FP \div 2, 0>>, <<FP, 0>>, <<0, FP>>}

\* the 3D positions its vertices are put at
TrianglePositions == {<<0, 0, 0>>, <<FP, 0, 0>>, <<0, FP, FP \div 4>>}

\* the restArea it is given
TriangleAreas == {0, FP \div 2}

HandMadeVertex(cfg, id, uv, position) ==
  [id |-> id, position |-> position, uv |-> uv, velocity |-> Zero3,
   mass |-> Quo(cfg.density, 4), pinned |-> FALSE, isBoundary |-> TRUE, isTearTip |-> FALSE]

InitTriangle ==
  /\ config = BaseConfig
  /\ \E uv0 \in {<<0, 0>>, <<FP \div 2, 0>>}, uv1, uv2 \in TriangleUvs, p0 \in {Zero3}, p1, p2 \in TrianglePositions :
       vertices = Table([id \in 0..2 |-> HandMadeVertex(config, id, <<uv0, uv1, uv2>>[id + 1], <<p0, p1, p2>>[id + 1])])
  /\ \E restArea \in TriangleAreas :
       triangles = 0 :> [id |-> 0, vertices |-> <<0, 1, 2>>, restArea |-> restArea, neighbors |-> <<>>]
  /\ edges = <<>>
  /\ nextVertexId = 3
  /\ nextTriangleId = 1
  /\ NewSimulation
  /\ NoDragController
  /\ last = [op |-> "new", args |-> <<>>, pre |-> <<>>, threw |-> FALSE, newId |-> NoVertex,
             prev |-> <<>>, tips |-> <<>>, grabForce |-> Zero3, did |-> <<>>, steps |-> 0,
             committed |-> {}]
  /\ calls = 0

NextTriangle == Step \/ StartGrab \/ UpdateGrab

SpecTriangle == InitTriangle /\ [][NextTriangle]_vars

(***************************************************************************)
(* A page with a drag controller: pointer events, the timers, the frames   *)
(* of the fall and the calls of the host arrive in any order               *)
(***************************************************************************)
\* the pointer positions tried, in pixels: at 72, 80, 100 and 150 px from the first
ScreenPoints == {<<0, 0>>, <<0, 72>>, <<48, 64>>, <<60, 80>>, <<90, 120>>}

\* where a drag is started
StartPoints == {<<0, 0>>, <<60, 80>>}

InitDrag ==
  /\ config = BaseConfig
  /\ LET M == buildInitialMesh(config) IN
       /\ vertices = M.vertices
       /\ triangles = M.triangles
       /\ edges = M.edges
       /\ nextVertexId = M.nextVertexId
       /\ nextTriangleId = M.nextTriangleId
  /\ NewSimulation
  /\ dragController \in {"PaperTear", "PaperController"}
  /\ paperTear = NewPaperTear
  /\ paperController = NewPaperController
  /\ calendarScene = NewCalendarScene
  /\ velocityHistory = <<>>
  /\ releaseVelocity = Zero2
  /\ last = [op |-> "new", args |-> <<>>, pre |-> <<>>]
  /\ calls = 0

\* the pages torn so far, counting a tear whose timer is still running
Tears == IF dragController = "PaperTear"
         THEN (Len(paperTear.calls) + 1) \div 2
         ELSE Len(paperController.calls) + paperController.timers

SetPaperTear(op, args, p) ==
  /\ paperTear' = p
  /\ last' = [op |-> op, args |-> args, pre |-> paperTear]
  /\ UNCHANGED <<config, vertices, triangles, edges, nextVertexId, nextTriangleId, simVars,
                 dragController, paperController, calendarScene, velocityVars, calls>>

SetPaperController(op, args, c) ==
  /\ paperController' = c
  /\ last' = [op |-> op, args |-> args, pre |-> paperController]
  /\ UNCHANGED <<config, vertices, triangles, edges, nextVertexId, nextTriangleId, simVars,
                 dragController, paperTear, calendarScene, velocityVars, calls>>

PaperTearStartDrag ==
  /\ dragController = "PaperTear"
  /\ Tears < MaxTears
  /\ \E screen \in StartPoints : SetPaperTear("startDrag", <<screen>>, PaperTear_startDrag(paperTear, screen))

PaperTearUpdateDrag ==
  /\ dragController = "PaperTear"
  /\ \E screen \in ScreenPoints : SetPaperTear("updateDrag", <<screen>>, PaperTear_updateDrag(paperTear, screen))

PaperTearEndDrag ==
  /\ dragController = "PaperTear"
  /\ \E gone \in BOOLEAN : SetPaperTear("endDrag", <<>>, PaperTear_endDrag(paperTear, gone))

\* the 50 ms timer of endDrag fires
PaperTearTimeout ==
  /\ dragController = "PaperTear"
  /\ paperTear.timers > 0
  /\ \E gone \in BOOLEAN :
       SetPaperTear("timeout", <<>>, startFalling([paperTear EXCEPT !.timers = @ - 1], gone))

\* the frame requested by animateFallingDetached is run
PaperTearFrame ==
  /\ dragController = "PaperTear"
  /\ paperTear.frameRequested
  /\ \E gone \in BOOLEAN :
       SetPaperTear("frame", <<>>,
                    animateFallingDetached(paperTear, gone, paperTear.fallFrames + 1 >= MaxFallFrames))

PaperTearLock ==
  /\ dragController = "PaperTear"
  /\ SetPaperTear("lock", <<>>, [paperTear EXCEPT !.isLocked = TRUE])

PaperTearUnlock ==
  /\ dragController = "PaperTear"
  /\ SetPaperTear("unlock", <<>>, [paperTear EXCEPT !.isLocked = FALSE])

PaperTearUpdateDate ==
  /\ dragController = "PaperTear"
  /\ SetPaperTear("updateDate", <<>>, PaperTear_updateDate(paperTear))

PaperControllerStartDrag ==
  /\ dragController = "PaperController"
  /\ Tears < MaxTears
  /\ \E screen \in StartPoints :
       SetPaperController("startDrag", <<screen>>, PaperController_startDrag(paperController, screen))

PaperControllerUpdateDrag ==
  /\ dragController = "PaperController"
  /\ \E screen \in ScreenPoints :
       SetPaperController("updateDrag", <<screen>>, PaperController_updateDrag(paperController, screen))

PaperControllerEndDrag ==
  /\ dragController = "PaperController"
  /\ SetPaperController("endDrag", <<>>, PaperController_endDrag(paperController))

\* the 500 ms timer of triggerTear fires
PaperControllerTimeout ==
  /\ dragController = "PaperController"
  /\ paperController.timers > 0
  /\ SetPaperController("timeout", <<>>, TearTimeout(paperController))

PaperControllerLock ==
  /\ dragController = "PaperController"
  /\ SetPaperController("lock", <<>>, [paperController EXCEPT !.isLocked = TRUE])

PaperControllerUpdateDate ==
  /\ dragController = "PaperController"
  /\ SetPaperController("updateDate", <<>>, PaperController_updateDate(paperController))

NextDrag ==
  \/ PaperTearStartDrag \/ PaperTearUpdateDrag \/ PaperTearEndDrag
  \/ PaperTearTimeout \/ PaperTearFrame
  \/ PaperTearLock \/ PaperTearUnlock \/ PaperTearUpdateDate
  \/ PaperControllerStartDrag \/ PaperControllerUpdateDrag \/ PaperControllerEndDrag
  \/ PaperControllerTimeout \/ PaperControllerLock \/ PaperControllerUpdateDate

SpecDrag == InitDrag /\ [][NextDrag]_vars

\* the browser runs every requested animation frame and fires every timer
SpecFall ==
  /\ InitDrag /\ [][NextDrag]_vars
  /\ WF_vars(PaperTearFrame)
  /\ WF_vars(PaperTearTimeout)

(***************************************************************************)
(* A PaperTear with its velocity samples.  The samples only set the first  *)
(* velocity of the fall, whose outcome is the input gone, so the           *)
(* specifications above leave them as they are after the constructor.      *)
(***************************************************************************)
\* the pointer positions tried, in pixels: at 100 and 150 px from the first
VelocityPoints == {<<0, 0>>, <<60, 80>>, <<90, 120>>}

InitVelocity ==
  /\ config = BaseConfig
  /\ LET M == buildInitialMesh(config) IN
       /\ vertices = M.vertices
       /\ triangles = M.triangles
       /\ edges = M.edges
       /\ nextVertexId = M.nextVertexId
       /\ nextTriangleId = M.nextTriangleId
  /\ NewSimulation
  /\ dragController = "PaperTear"
  /\ paperTear = NewPaperTear
  /\ paperController = NewPaperController
  /\ calendarScene = NewCalendarScene
  /\ velocityHistory = <<>>
  /\ releaseVelocity = Zero2
  /\ last = [op |-> "new", args |-> <<>>, pre |-> NewPaperTear, history |-> <<>>]
  /\ calls = 0

\* a call that ends with the PaperTear as q, the samples as h and the
\* release velocity as r
SetVelocity(op, args, q, h, r) ==
  /\ paperTear' = q
  /\ velocityHistory' = AfterFall(paperTear, q, h)
  /\ releaseVelocity' = r
  /\ last' = [op |-> op, args |-> args, pre |-> paperTear, history |-> velocityHistory]
  /\ UNCHANGED <<config, vertices, triangles, edges, nextVertexId, nextTriangleId, simVars,
                 dragController, paperController, calendarScene, calls>>

VelocityStartDrag ==
  /\ dragController = "PaperTear"
  /\ Tears < MaxTears
  /\ SetVelocity("startDrag", <<Zero2>>, PaperTear_startDrag(paperTear, Zero2),
                 startDrag_velocityHistory(paperTear, velocityHistory), releaseVelocity)

VelocityUpdateDrag ==
  /\ dragController = "PaperTear"
  /\ \E screen \in VelocityPoints :
       SetVelocity("updateDrag", <<screen>>, PaperTear_updateDrag(paperTear, screen),
                   updateDrag_velocityHistory(paperTear, velocityHistory, screen), releaseVelocity)

VelocityEndDrag ==
  /\ dragController = "PaperTear"
  /\ \E gone \in BOOLEAN :
       SetVelocity("endDrag", <<>>, PaperTear_endDrag(paperTear, gone), velocityHistory,
                   endDrag_releaseVelocity(paperTear, velocityHistory, releaseVelocity))

\* the 50 ms timer of endDrag fires
VelocityTimeout ==
  /\ paperTear.timers > 0
  /\ \E gone \in BOOLEAN :
       SetVelocity("timeout", <<>>, startFalling([paperTear EXCEPT !.timers = @ - 1], gone),
                   velocityHistory, releaseVelocity)

\* the frame requested by animateFallingDetached is run
VelocityFrame ==
  /\ paperTear.frameRequested
  /\ \E gone \in BOOLEAN :
       SetVelocity("frame", <<>>,
                   animateFallingDetached(paperTear, gone, paperTear.fallFrames + 1 >= MaxFallFrames),
                   velocityHistory, releaseVelocity)

NextVelocity ==
  VelocityStartDrag \/ VelocityUpdateDrag \/ VelocityEndDrag \/ VelocityTimeout \/ VelocityFrame

SpecVelocity == InitVelocity /\ [][NextVelocity]_vars

(***************************************************************************)
(* A CalendarScene whose tear sounds load while pages are torn: the end of *)
(* the loading, the completed tears and the continuations of playTearSound *)
(* arrive in any order                                                     *)
(***************************************************************************)
InitSound ==
  /\ config = BaseConfig
  /\ LET M == buildInitialMesh(config) IN
       /\ vertices = M.vertices
       /\ triangles = M.triangles
       /\ edges = M.edges
       /\ nextVertexId = M.nextVertexId
       /\ nextTriangleId = M.nextTriangleId
  /\ NewSimulation
  /\ dragController = "PaperTear"
  /\ paperTear = NewPaperTear
  /\ paperController = NewPaperController
  /\ calendarScene = NewCalendarScene
  /\ velocityHistory = <<>>
  /\ releaseVelocity = Zero2
  /\ last = [op |-> "new", args |-> <<>>, pre |-> <<>>]
  /\ calls = 0

SetCalendarScene(op, args, c) ==
  /\ calendarScene' = c
  /\ last' = [op |-> op, args |-> args, pre |-> calendarScene]
  /\ UNCHANGED <<config, vertices, triangles, edges, nextVertexId, nextTriangleId, simVars,
                 dragController, paperTear, paperController, velocityVars, calls>>

\* the PaperTear reports a completed tear; a locked PaperTear starts none
HandleTearComplete ==
  /\ ~calendarScene.locked /\ ~calendarScene.disposed
  /\ \E started \in BOOLEAN :
       SetCalendarScene("handleTearComplete", <<started>>, handleTearComplete(calendarScene, MaxDates, started))

SoundsLoaded ==
  /\ ~calendarScene.resolved
  /\ SetCalendarScene("loadSounds", <<>>, loadSounds_Done(calendarScene))

\* the oldest call of playTearSound that waits for loadPromise goes on
PlayAfterLoad ==
  /\ calendarScene.resolved /\ calendarScene.waiting # <<>>
  /\ \E started \in BOOLEAN :
       SetCalendarScene("playTearSound", <<calendarScene.waiting[1], started>>,
                        playTearSound_Play([calendarScene EXCEPT !.waiting = Tail(@)],
                                           calendarScene.waiting[1], started))

\* the promise of the oldest play() settles
PlaySettled ==
  /\ calendarScene.playing # <<>>
  /\ SetCalendarScene("played", <<calendarScene.playing[1]>>, playTearSound_Advance(calendarScene))

Dispose ==
  /\ ~calendarScene.disposed
  /\ SetCalendarScene("dispose", <<>>, SoundManager_dispose(calendarScene))

NextSound == HandleTearComplete \/ SoundsLoaded \/ PlayAfterLoad \/ PlaySettled \/ Dispose

SpecSound == InitSound /\ [][NextSound]_vars

(***************************************************************************)
(* A CalendarScene with its PaperTear: the mouse and touch handlers of the *)
(* scene drive the PaperTear, whose onTearComplete is the scene's          *)
(* handleTearComplete                                                      *)
(***************************************************************************)
\* the calls of onTearComplete made so far
TearCompletes(p) == Len(SelectSeq(p.calls, LAMBDA c : c = "onTearComplete"))

\* handleMouseDown and handleTouchStart: startDrag only when isInteractive()
handleMouseDown(p, screen) ==
  IF ~PaperTear_isInteractive(p) THEN p ELSE PaperTear_startDrag(p, screen)

\* the scene after a call that took the PaperTear from p to q: every
\* onTearComplete of the call has run handleTearComplete
SceneAfter(c, p, q) ==
  IF TearCompletes(q) > TearCompletes(p) THEN handleTearComplete(c, MaxDates, TRUE) ELSE c

\* the PaperTear after that call: handleTearComplete has called updateDate
\* when it advanced and lock() when the last date was reached
PaperTearAfter(c, p, q) ==
  LET d == SceneAfter(c, p, q)
      shown == IF d.currentIndex > c.currentIndex THEN PaperTear_updateDate(q) ELSE q
  IN [shown EXCEPT !.isLocked = @ \/ (d.locked /\ ~c.locked)]

InitScene ==
  /\ config = BaseConfig
  /\ LET M == buildInitialMesh(config) IN
       /\ vertices = M.vertices
       /\ triangles = M.triangles
       /\ edges = M.edges
       /\ nextVertexId = M.nextVertexId
       /\ nextTriangleId = M.nextTriangleId
  /\ NewSimulation
  /\ dragController = "PaperTear"
  /\ paperTear = NewPaperTear
  /\ paperController = NewPaperController
  /\ calendarScene = NewCalendarScene
  /\ velocityHistory = <<>>
  /\ releaseVelocity = Zero2
  /\ last = [op |-> "new", args |-> <<>>, pre |-> NewPaperTear, scene |-> NewCalendarScene]
  /\ calls = 0

\* a call of the PaperTear that ends as q, with the callbacks it made
SetScene(op, args, q) ==
  /\ paperTear' = PaperTearAfter(calendarScene, paperTear, q)
  /\ calendarScene' = SceneAfter(calendarScene, paperTear, q)
  /\ last' = [op |-> op, args |-> args, pre |-> paperTear, scene |-> calendarScene]
  /\ UNCHANGED <<config, vertices, triangles, edges, nextVertexId, nextTriangleId, simVars,
                 dragController, paperController, velocityVars, calls>>

HandleMouseDown ==
  /\ dragController = "PaperTear"
  /\ \E screen \in StartPoints : SetScene("mouseDown", <<screen>>, handleMouseDown(paperTear, screen))

HandleMouseMove ==
  /\ dragController = "PaperTear"
  /\ \E screen \in ScreenPoints : SetScene("mouseMove", <<screen>>, PaperTear_updateDrag(paperTear, screen))

HandleMouseUp ==
  /\ dragController = "PaperTear"
  /\ \E gone \in BOOLEAN : SetScene("mouseUp", <<>>, PaperTear_endDrag(paperTear, gone))

\* the 50 ms timer of endDrag fires
SceneTimeout ==
  /\ paperTear.timers > 0
  /\ \E gone \in BOOLEAN :
       SetScene("timeout", <<>>, startFalling([paperTear EXCEPT !.timers = @ - 1], gone))

\* the frame requested by animateFallingDetached is run
SceneFrame ==
  /\ paperTear.frameRequested
  /\ \E gone \in BOOLEAN :
       SetScene("frame", <<>>,
                animateFallingDetached(paperTear, gone, paperTear.fallFrames + 1 >= MaxFallFrames))

NextScene == HandleMouseDown \/ HandleMouseMove \/ HandleMouseUp \/ SceneTimeout \/ SceneFrame

SpecScene == InitScene /\ [][NextScene]_vars

(***************************************************************************)
(* Properties of the mesh                                                  *)
(***************************************************************************)
EdgeEnds(e) == {e.vertices[1], e.vertices[2]}
TriangleSet(e) == {e.triangles[i] : i \in 1..Len(e.triangles)}
EdgeSet(M) == {M.edges[i] : i \in 1..Len(M.edges)}
VertexSet(tri) == {tri.vertices[1], tri.vertices[2], tri.vertices[3]}
IsEdgeOf(M, a, b) == \E e \in EdgeSet(M) : EdgeEnds(e) = {a, b}

\* C1: the mesh the constructor builds has 2 * cols * rows triangles, where
\* cols = subdivisions and rows is the least integer with rows >= subdivisions
\* * height / width; every triangle names three distinct vertices of the vertex
\* map; every edge of the edge map has one or two adjacent triangles.
C1_MeshConstruction ==
  last.op = "new" =>
    LET cols == config.subdivisions
        rows == CHOOSE r \in 1..(config.subdivisions * config.height) :
                  /\ r * config.width >= config.subdivisions * config.height
                  /\ (r - 1) * config.width < config.subdivisions * config.height
    IN /\ Cardinality(DOMAIN triangles) = 2 * cols * rows
       /\ \A t \in DOMAIN triangles :
            /\ Cardinality(VertexSet(triangles[t])) = 3
            /\ VertexSet(triangles[t]) \subseteq DOMAIN vertices
       /\ \A e \in EdgeSet(Mesh) : Len(e.triangles) \in {1, 2} /\ Cardinality(TriangleSet(e)) = Len(e.triangles)

\* a freshly built grid with an interior vertex and more rows than columns
C1_Witness ==
  /\ last.op = "new"
  /\ config.subdivisions = 2
  /\ Cardinality(DOMAIN triangles) = 16
  /\ \E v \in DOMAIN vertices : ~vertices[v].isBoundary

OnBoundaryEdge(M, v) == \E e \in EdgeSet(M) : Len(e.triangles) = 1 /\ v \in EdgeEnds(e)

\* C2: after construction and after every splitVertex, tearEdge and
\* insertVertexOnEdge call that returns, a vertex has isBoundary = TRUE exactly
\* when it is an endpoint of an edge with exactly one adjacent triangle.
C2_BoundaryConsistency ==
  ~last.threw => \A v \in DOMAIN vertices : vertices[v].isBoundary <=> OnBoundaryEdge(Mesh, v)

\* a vertex inserted on an edge between two triangles is flagged as boundary
\* although all its edges have two triangles
C2_InsertedInteriorVertex ==
  /\ last.op = "insertVertexOnEdge" /\ ~last.threw
  /\ vertices[last.newId].isBoundary
  /\ ~OnBoundaryEdge(Mesh, last.newId)
  /\ \E e \in EdgeSet(Mesh) : last.newId \in EdgeEnds(e)

\* C3: tearEdge(v0, v1) on an existing untorn edge with two adjacent triangles
\* t0, t1 adds exactly two vertices, keeps the triangles, and leaves t0 and t1
\* without a common edge and out of each other's neighbor lists.
C3_TearInternalEdge ==
  (last.op = "tearEdge" /\ getEdge(last.pre, last.args[1], last.args[2]) # 0) =>
    LET e == last.pre.edges[getEdge(last.pre, last.args[1], last.args[2])] IN
    (Len(e.triangles) = 2 /\ ~e.isTorn) =>
      LET t0 == e.triangles[1]
          t1 == e.triangles[2]
      IN /\ Cardinality(DOMAIN vertices) = Cardinality(DOMAIN last.pre.vertices) + 2
         /\ DOMAIN triangles = DOMAIN last.pre.triangles
         /\ ~\E f \in EdgeSet(Mesh) : {t0, t1} \subseteq TriangleSet(f)
         /\ ~Includes(triangles[t0].neighbors, t1)
         /\ ~Includes(triangles[t1].neighbors, t0)
         /\ Cardinality(VertexSet(triangles[t0]) \cap VertexSet(triangles[t1])) < 2

\* an internal edge that ends at an interior vertex has just been torn
C3_Witness ==
  /\ last.op = "tearEdge"
  /\ getEdge(last.pre, last.args[1], last.args[2]) # 0
  /\ Len(last.pre.edges[getEdge(last.pre, last.args[1], last.args[2])].triangles) = 2
  /\ ~last.pre.vertices[last.args[1]].isBoundary
  /\ Cardinality(DOMAIN vertices) = Cardinality(DOMAIN last.pre.vertices) + 2

\* C4: a second tearEdge(v0, v1) right after a first one on an edge (internal
\* or boundary) leaves the numbers of vertices and triangles as the first call
\* left them; so would a further call from any state a tearEdge produced.
C4_TearIdempotence ==
  (last.op = "tearEdge" /\ IsEdgeOf(Mesh, last.args[1], last.args[2])) =>
    /\ last.prev = <<"tearEdge", last.args>> =>
         /\ Cardinality(DOMAIN vertices) = Cardinality(DOMAIN last.pre.vertices)
         /\ Cardinality(DOMAIN triangles) = Cardinality(DOMAIN last.pre.triangles)
    /\ LET again == tearEdge(Mesh, last.args[1], last.args[2]) IN
         /\ DOMAIN again.vertices = DOMAIN vertices
         /\ DOMAIN again.triangles = DOMAIN triangles

\* the same internal edge has been torn twice in a row
C4_Witness ==
  /\ last.op = "tearEdge"
  /\ last.prev = <<"tearEdge", last.args>>
  /\ IsEdgeOf(Mesh, last.args[1], last.args[2])
  /\ \E v \in DOMAIN vertices : v >= (GridCols(config) + 1) * (GridRows(config) + 1)

Replaced(tv, old, new) == [k \in 1..3 |-> IF tv[k] = old THEN new ELSE tv[k]]

\* C5: splitVertex(vertexId, trianglesToMove) with an existing vertex and a
\* non-empty list of existing triangles adds exactly one vertex, under a fresh
\* id, with the position, UV and velocity of vertexId; keeps the set of
\* triangles; puts the new id in place of vertexId in exactly the listed
\* triangles that contained vertexId; and leaves every other triangle's
\* vertices as they were.
C5_SplitVertex ==
  (last.op = "splitVertex" /\ ~last.threw) =>
    LET vertexId == last.args[1]
        listed == {last.args[2][i] : i \in 1..Len(last.args[2])}
        pre == last.pre
        newId == last.newId
    IN /\ newId \notin DOMAIN pre.vertices
       /\ DOMAIN vertices = DOMAIN pre.vertices \cup {newId}
       /\ vertices[newId].id = newId
       /\ vertices[newId].position = pre.vertices[vertexId].position
       /\ vertices[newId].uv = pre.vertices[vertexId].uv
       /\ vertices[newId].velocity = pre.vertices[vertexId].velocity
       /\ DOMAIN triangles = DOMAIN pre.triangles
       /\ \A t \in DOMAIN triangles :
            triangles[t].vertices =
              IF t \in listed /\ vertexId \in VertexSet(pre.triangles[t])
              THEN Replaced(pre.triangles[t].vertices, vertexId, newId)
              ELSE pre.triangles[t].vertices

\* a split that moved one listed triangle, skipped a listed triangle away from
\* the vertex, and left another triangle at the vertex
C5_Witness ==
  /\ last.op = "splitVertex" /\ ~last.threw
  /\ Len(last.args[2]) = 2
  /\ \E t \in DOMAIN triangles : last.newId \in VertexSet(triangles[t])
  /\ \E i \in 1..2 : last.args[1] \notin VertexSet(last.pre.triangles[last.args[2][i]])
  /\ \E t \in DOMAIN triangles : last.args[1] \in VertexSet(triangles[t])

\* C16: tearEdge on a pair of ids that is not an edge changes nothing in the
\* vertex, triangle and edge maps, and getEdge finds nothing for such a pair;
\* splitVertex with a vertex id or a triangle id that does not exist, and
\* insertVertexOnEdge with a vertex id that does not exist, end with an error.
C16_MissingIds ==
  /\ last.op = "tearEdge" =>
        LET v0 == last.args[1]
            v1 == last.args[2]
        IN ~IsEdgeOf(last.pre, v0, v1) =>
             /\ getEdge(last.pre, v0, v1) = 0
             /\ vertices = last.pre.vertices
             /\ triangles = last.pre.triangles
             /\ edges = last.pre.edges
  /\ last.op = "splitVertex" =>
        LET unknown == \/ last.args[1] \notin DOMAIN last.pre.vertices
                       \/ \E i \in 1..Len(last.args[2]) : last.args[2][i] \notin DOMAIN last.pre.triangles
        IN unknown => last.threw
  /\ last.op = "insertVertexOnEdge" =>
        LET unknown == last.args[1] \notin DOMAIN last.pre.vertices \/ last.args[2] \notin DOMAIN last.pre.vertices
        IN unknown => last.threw

\* a splitVertex on an existing vertex that moved a triangle and then met a
\* triangle id that does not exist
C16_Witness ==
  /\ last.op = "splitVertex" /\ last.threw
  /\ last.args[1] \in DOMAIN last.pre.vertices
  /\ Len(last.args[2]) = 2
  /\ last.args[2][1] \in DOMAIN last.pre.triangles
  /\ last.args[2][2] \notin DOMAIN last.pre.triangles
  /\ triangles # last.pre.triangles

\* C20: once tearEdge(v0, v1) was called on an existing edge, an edge with the
\* endpoints (v0, v1) that is in the edge map has isTorn = TRUE.
C20_TornIsPermanent ==
  (last.op = "tearEdge" /\ IsEdgeOf(last.pre, last.args[1], last.args[2])) =>
    \A e \in EdgeSet(Mesh) : EdgeEnds(e) = {last.args[1], last.args[2]} => e.isTorn

\* the edge map never holds a torn edge at all
C20_NoTornEdge == \A e \in EdgeSet(Mesh) : ~e.isTorn

RECURSIVE MassOf(_, _)
MassOf(verts, n) == IF n = 0 THEN 0 ELSE verts[n - 1].mass + MassOf(verts, n - 1)

\* C11: in a freshly built mesh the vertex masses add up to density * width *
\* height, the mass of the sheet, to within a tenth of it.
C11_MassConservation ==
  last.op = "new" =>
    LET sheet == config.density * config.width * config.height
    IN Abs(MassOf(vertices, nextVertexId) - sheet) * 10 <= sheet

\* a freshly built single cell, where the four quarter masses do add up
C11_SingleCell ==
  /\ last.op = "new"
  /\ nextVertexId = 4
  /\ MassOf(vertices, nextVertexId) = config.density * config.width * config.height

(***************************************************************************)
(* Properties of the simulation                                            *)
(***************************************************************************)
\* where the constructor puts a vertex with these UV coordinates
RestPosition(uv) == <<(uv[1] - FP \div 2) * config.width, (uv[2] - FP \div 2) * config.height, 0>>

\* C6: pinned vertices never move: whatever calls of step, startGrab,
\* updateGrab, endGrab and initiateTearAt were made and whatever tears were
\* propagated, every vertex with pinned = true has the position and velocity
\* it had before the call, which are the ones it was created with; and the
\* grabbed vertex is never a pinned one.
C6_PinnedNeverMove ==
  /\ \A v \in DOMAIN vertices :
        vertices[v].pinned => vertices[v].position = RestPosition(vertices[v].uv) /\ vertices[v].velocity = Zero3
  /\ last.op # "new" =>
        \A v \in DOMAIN last.pre.vertices :
          last.pre.vertices[v].pinned =>
            /\ vertices[v].pinned
            /\ vertices[v].position = last.pre.vertices[v].position
            /\ vertices[v].velocity = last.pre.vertices[v].velocity
  /\ grabVertex # NoVertex => ~vertices[grabVertex].pinned

\* a step in which a force acted on a pinned vertex and a free vertex moved,
\* after a grab next to the pinned edge took a vertex
C6_Witness ==
  /\ last.op = "step"
  /\ grabVertex # NoVertex
  /\ \E v \in DOMAIN vertices : vertices[v].pinned /\ getForce(vertexForces, v) # Zero3
  /\ \E v \in DOMAIN last.pre.vertices : vertices[v].position # last.pre.vertices[v].position

\* the k-th tear tip was processed by the step that produced this state
Processed(k) == last.op = "step" /\ k \in 1..Len(last.did) /\ ~last.did[k].early

\* the untorn edges at the k-th tip when the step came to it
OpenEdges(k) ==
  {e \in EdgeSet(last.did[k].mesh) : last.did[k].before.vertexId \in EdgeEnds(e) /\ ~e.isTorn}

\* the dot product of the UV direction of edge e, seen from the k-th tip, with
\* the tear direction computed for that tip
Alignment(k, e) ==
  LET M == last.did[k].mesh
      tipVertex == last.did[k].before.vertexId
      far == CHOOSE w \in EdgeEnds(e) : EdgeEnds(e) = {tipVertex, w}
  IN vec2dot(vec2normalize(vec2sub(M.vertices[far].uv, M.vertices[tipVertex].uv)), last.did[k].tearDir)

Aligned(k, e) == Alignment(k, e) * 10 > 3 * FP

\* C7: for a tear tip whose vertexId has never changed, a step with dt > 0 in
\* which the energy-release rate computed for it is not negative leaves
\* tip.energy at least as large as it was before the step.
C7_EnergyMonotonic ==
  \A k \in 1..Len(tearTips) :
    (Processed(k) /\ ~propagated[k] /\ last.args[1] > 0 /\ last.did[k].rate >= 0)
      => tearTips[k].energy >= last.did[k].before.energy

\* C8: in a step where a tip's energy exceeds fractureThreshold, an edge is
\* torn only if it is an untorn edge at the tip vertex whose alignment with
\* the tear direction is the largest among the untorn edges there and is above
\* 0.3; afterwards the tip is at the far end of that edge, that vertex is
\* marked isTearTip and isBoundary, and tip.energy is 0.
C8_PropagationRule ==
  \A k \in 1..Len(tearTips) :
    (Processed(k) /\ last.did[k].exceeded /\ last.did[k].torn # <<>>) =>
      LET torn == last.did[k].torn IN
        /\ torn[1] = last.did[k].before.vertexId
        /\ \E e \in OpenEdges(k) :
              /\ EdgeEnds(e) = {torn[1], torn[2]}
              /\ \A f \in OpenEdges(k) : Alignment(k, f) <= Alignment(k, e)
              /\ Aligned(k, e)
        /\ tearTips[k].vertexId = torn[2]
        /\ vertices[torn[2]].isTearTip
        /\ vertices[torn[2]].isBoundary
        /\ tearTips[k].energy = 0

\* a step that tore an inner edge at a tip which had edges of different
\* alignment to choose from
C8_Witness ==
  \E k \in 1..Len(tearTips) :
    /\ Processed(k) /\ last.did[k].exceeded /\ last.did[k].torn # <<>>
    /\ nextVertexId = last.pre.nextVertexId + 2
    /\ \E e, f \in OpenEdges(k) : Alignment(k, e) < Alignment(k, f) /\ Aligned(k, e)

\* C9: in a step where a tip's energy exceeds fractureThreshold and no untorn
\* edge at the tip has alignment above 0.3, no edge is torn, the tip stays at
\* its vertex and its energy is what it accumulated; the energy is set back to
\* 0 only in a step that tears an edge and moves the tip.
C9_StalledTear ==
  \A k \in 1..Len(tearTips) :
    Processed(k) =>
      LET d == last.did[k]
          charged == d.before.energy + Mul(d.rate, last.args[1])
      IN /\ (d.exceeded /\ \A e \in OpenEdges(k) : ~Aligned(k, e)) =>
               /\ d.torn = <<>>
               /\ tearTips[k].vertexId = d.before.vertexId
               /\ tearTips[k].energy = charged
         /\ tearTips[k].energy # charged =>
               /\ tearTips[k].energy = 0
               /\ d.torn # <<>>
               /\ tearTips[k].vertexId # d.before.vertexId

\* C10: a tear tip whose vertex is pinned is arrested: a step neither tears
\* an edge at it nor moves it to another vertex.
C10_ArrestAtPinned ==
  \A k \in 1..Len(tearTips) :
    (Processed(k) /\ last.did[k].mesh.vertices[last.did[k].before.vertexId].pinned) =>
      /\ last.did[k].torn = <<>>
      /\ tearTips[k].vertexId = last.did[k].before.vertexId


\* the distance in rest UV space from vertex v to the point uv
UvDistance(v, uv) == vec2length(vec2sub(vertices[v].uv, uv))

\* the vertices startGrab may take for the point uv
Grabbable(uv) == {v \in DOMAIN vertices : ~vertices[v].pinned /\ UvDistance(v, uv) < config.grabRadius}

\* C12: after startGrab(uv) the grab vertex is a vertex that is not pinned,
\* lies closer to uv than grabRadius and has no non-pinned vertex closer to uv
\* than itself; if no such vertex exists nothing is grabbed, whatever was
\* grabbed before.
C12_StartGrab ==
  last.op = "startGrab" =>
    LET uv == last.args[1] IN
      IF Grabbable(uv) = {} THEN grabVertex = NoVertex
      ELSE /\ grabVertex \in Grabbable(uv)
           /\ \A w \in Grabbable(uv) : UvDistance(grabVertex, uv) <= UvDistance(w, uv)

\* a grab on the pinned edge that took the nearest free vertex although a
\* pinned one was nearer
C12_Witness ==
  /\ last.op = "startGrab"
  /\ grabVertex # NoVertex
  /\ \E v \in DOMAIN vertices : vertices[v].pinned /\ UvDistance(v, last.args[1]) < UvDistance(grabVertex, last.args[1])


\* the spring force of updateGrab towards target on the grabbed vertex, as it
\* stood before the call
SpringForce(target) ==
  vec3length(vec3scale(vec3sub(target, last.pre.vertices[grabVertex].position), config.grabStiffness))

C17_NoDivisionByZero ==
  \A v \in DOMAIN vertices : \A c \in 1..3 :
    /\ vertices[v].position[c] \notin NonFinite
    /\ vertices[v].velocity[c] \notin NonFinite
    /\ getForce(vertexForces, v)[c] \notin NonFinite

\* a step on a sheet with mass that crossed the guards of normalize: the
\* force on some vertex was zero and a free vertex was moved
C17_GuardedStep ==
  /\ last.op = "step" /\ config.density > 0
  /\ \E v \in DOMAIN vertices : getForce(vertexForces, v) = Zero3
  /\ \E v \in DOMAIN last.pre.vertices : vertices[v].position # last.pre.vertices[v].position


\* the rest-UV points of a triangle are collinear
Collinear(M, t) ==
  LET tv == M.triangles[t].vertices
  IN Det2(M.vertices[tv[1]].uv, M.vertices[tv[2]].uv, M.vertices[tv[3]].uv) = 0

\* the forces of a step that are not internal ones: gravity, damping and the grab
ExternalOnly(M) ==
  applyExternalForces(M, config, Table([v \in DOMAIN M.vertices |-> Zero3]), grabVertex, last.grabForce)

\* C19: a triangle whose three rest-UV points are collinear adds zero force
\* to each of its vertices, whatever their 3D positions: after a step, the
\* force on a vertex all of whose triangles are collinear is the external
\* force alone (gravity, damping and the grab).
C19_DegenerateTriangleSkip ==
  last.op = "step" =>
    \A t \in DOMAIN last.pre.triangles :
      Collinear(last.pre, t) =>
        \A k \in 1..3 :
          LET v == last.pre.triangles[t].vertices[k]
          IN (\A u \in DOMAIN last.pre.triangles :
                Includes(last.pre.triangles[u].vertices, v) => Collinear(last.pre, u))
             => getForce(vertexForces, v) = ExternalOnly(last.pre)[v]

\* a step over a collinear triangle of three distinct rest-UV points with a
\* rest area of its own, whose 3D edges are neither of zero length nor of
\* their rest length
C19_Witness ==
  /\ last.op = "step"
  /\ \E t \in DOMAIN last.pre.triangles :
       LET tv == last.pre.triangles[t].vertices
           v0 == last.pre.vertices[tv[1]]
           v1 == last.pre.vertices[tv[2]]
           v2 == last.pre.vertices[tv[3]]
           len1 == vec3length(vec3sub(v1.position, v0.position))
           len2 == vec3length(vec3sub(v2.position, v0.position))
       IN /\ Collinear(last.pre, t)
          /\ v0.uv # v1.uv /\ v0.uv # v2.uv /\ v1.uv # v2.uv
          /\ last.pre.triangles[t].restArea > 0
          /\ len1 > 0 /\ len1 # vec2length(vec2sub(v1.uv, v0.uv)) * config.width
          /\ len2 > 0 /\ len2 # vec2length(vec2sub(v2.uv, v0.uv)) * config.height


(***************************************************************************)
(* Properties of the drag controllers                                      *)
(***************************************************************************)
\* C14: isInteractive() of the drag controller is false in every state in
\* which the controller is locked, a tear or fall animation is in progress
\* (the timer of the tear or a frame of the fall is pending, the detached
\* sheet is on screen) or the page has been torn (its mesh is hidden); it
\* is true only when none of these holds.
C14_IsInteractive ==
  /\ dragController = "PaperTear" /\ PaperTear_isInteractive(paperTear) =>
       ~paperTear.isLocked /\ ~paperTear.frameRequested /\ ~paperTear.detachedCanvas
  /\ dragController = "PaperController" /\ PaperController_isInteractive(paperController) =>
       ~paperController.isLocked /\ paperController.timers = 0 /\ paperController.visible

\* the same for the PaperTear alone
C14_PaperTearIsInteractive ==
  dragController = "PaperTear" /\ PaperTear_isInteractive(paperTear) =>
    ~paperTear.isLocked /\ ~paperTear.frameRequested /\ ~paperTear.detachedCanvas

\* C15: when endDrag() is called on an attached page whose drag has not
\* crossed the tear threshold (drag progress <= 0.4 in PaperTear, targetCurl
\* <= 0.6 in PaperController), nothing is detached or torn, no timer is
\* started, no callback is called, and the targets are at rest afterwards:
\* target rotation and position are zero, target curl and grab strength are
\* zero.
C15_DragCancellation ==
  /\ dragController = "PaperTear" /\ last.op = "endDrag"
       /\ ~last.pre.isDetached /\ dragProgress(last.pre) <= ReleaseProgress
     => /\ ~paperTear.isDetached /\ ~paperTear.detachedCanvas
        /\ paperTear.tearCompleted = last.pre.tearCompleted
        /\ paperTear.timers = last.pre.timers
        /\ paperTear.calls = last.pre.calls
        /\ paperTear.targetRotation = Zero3
        /\ paperTear.targetPosition = Zero2
  /\ dragController = "PaperController" /\ last.op = "endDrag"
       /\ last.pre.visible /\ last.pre.targetCurl <= ReleaseCurl
     => /\ ~paperController.tearInProgress
        /\ paperController.timers = last.pre.timers
        /\ paperController.calls = last.pre.calls
        /\ paperController.targetCurl = 0
        /\ paperController.grabStrength = 0

\* endDrag has ended a drag of an attached sheet that had moved the targets
\* without crossing the threshold, in a PaperTear
C15_Witness ==
  /\ dragController = "PaperTear" /\ last.op = "endDrag"
  /\ last.pre.isDragging /\ ~last.pre.isDetached
  /\ dragProgress(last.pre) > 0 /\ dragProgress(last.pre) <= ReleaseProgress
  /\ last.pre.targetRotation # Zero3 /\ last.pre.targetPosition # Zero2

\* the same in a PaperController
C15_WitnessController ==
  /\ dragController = "PaperController" /\ last.op = "endDrag"
  /\ last.pre.isDragging /\ last.pre.visible
  /\ last.pre.targetCurl > 0 /\ last.pre.targetCurl <= ReleaseCurl
  /\ last.pre.grabStrength > 0

\* C18: the callbacks of a PaperTear alternate, whatever the order of
\* startDrag, updateDrag, endDrag, the 50 ms timer and the frames: the
\* first call is onTearComplete, every onTearComplete is followed by an
\* onFallComplete before the next onTearComplete, and every onFallComplete
\* follows an onTearComplete of its own.
C18_EventAlternation ==
  dragController = "PaperTear" =>
    \A i \in 1..Len(paperTear.calls) :
      paperTear.calls[i] = IF i % 2 = 1 THEN "onTearComplete" ELSE "onFallComplete"

\* MaxTears pages were torn and fell, the last one in a frame of its fall
\* while a timer of endDrag was still running
C18_Witness ==
  /\ dragController = "PaperTear"
  /\ Len(paperTear.calls) = 2 * MaxTears
  /\ last.op = "frame"
  /\ last.pre.timers > 0


(***************************************************************************)
(* Properties of the mesh under its mutations                              *)
(***************************************************************************)
\* the unordered pairs of vertex ids that are sides of triangle tri
SidesOf(tri) == {{tri.vertices[1], tri.vertices[2]}, {tri.vertices[2], tri.vertices[3]},
                 {tri.vertices[3], tri.vertices[1]}}

NeighborSet(t) == {triangles[t].neighbors[i] : i \in 1..Len(triangles[t].neighbors)}

\* C23: after any sequence of splitVertex, tearEdge and insertVertexOnEdge
\* calls with existing ids (none of which threw), every triangle names three
\* distinct existing vertices, the edge map holds exactly one edge per
\* unordered pair of vertex ids that is a side of some triangle, every edge
\* lists the one or two triangles that have it as a side, isBoundary of an
\* edge says that it has one triangle, and the neighbor lists are symmetric,
\* without repetition and of at most 3 entries.
C23_TopologicalConsistency ==
  last.clean =>
    /\ \A t \in DOMAIN triangles :
         /\ Cardinality(VertexSet(triangles[t])) = 3
         /\ VertexSet(triangles[t]) \subseteq DOMAIN vertices
    /\ \A i, j \in 1..Len(edges) : EdgeEnds(edges[i]) = EdgeEnds(edges[j]) => i = j
    /\ {EdgeEnds(e) : e \in EdgeSet(Mesh)} = UNION {SidesOf(triangles[t]) : t \in DOMAIN triangles}
    /\ \A e \in EdgeSet(Mesh) :
         /\ Len(e.triangles) \in {1, 2}
         /\ Cardinality(TriangleSet(e)) = Len(e.triangles)
         /\ TriangleSet(e) = {t \in DOMAIN triangles : EdgeEnds(e) \in SidesOf(triangles[t])}
         /\ e.isBoundary <=> Len(e.triangles) = 1
    /\ \A t \in DOMAIN triangles :
         /\ Len(triangles[t].neighbors) <= 3
         /\ Cardinality(NeighborSet(t)) = Len(triangles[t].neighbors)
         /\ \A u \in NeighborSet(t) : u \in DOMAIN triangles /\ t \in NeighborSet(u)

\* a vertex inserted on an inner edge was split with a triangle moved to the
\* copy, no call having thrown
C23_Witness ==
  /\ last.clean
  /\ last.op = "splitVertex" /\ last.prev[1] = "insertVertexOnEdge"
  /\ last.pre.nextTriangleId = Cardinality(DOMAIN buildInitialMesh(config).triangles) + 2
  /\ last.args[1] = last.pre.nextVertexId - 1
  /\ \E t \in DOMAIN triangles : Includes(triangles[t].vertices, last.newId)

\* C24: vertex ids are unique and never reused: every vertex is stored
\* under its own id, a call removes no vertex and changes neither the id nor
\* the rest UV of a vertex, and every vertex a call creates has an id that is
\* at least the nextVertexId the call started from, hence above every id
\* issued before; nextVertexId never decreases and is above every id.
C24_VertexIds ==
  /\ \A v \in DOMAIN vertices : vertices[v].id = v /\ v < nextVertexId
  /\ last.op # "new" =>
       /\ nextVertexId >= last.pre.nextVertexId
       /\ \A v \in DOMAIN last.pre.vertices :
            /\ v \in DOMAIN vertices
            /\ vertices[v].uv = last.pre.vertices[v].uv
       /\ \A v \in DOMAIN vertices \ DOMAIN last.pre.vertices : v >= last.pre.nextVertexId

\* tearEdge has split both ends of an inner edge after an earlier call had
\* created a vertex of its own
C24_Witness ==
  /\ last.op = "tearEdge"
  /\ Cardinality(DOMAIN vertices) = Cardinality(DOMAIN last.pre.vertices) + 2
  /\ last.prev[1] \in {"splitVertex", "insertVertexOnEdge"}
  /\ Cardinality(DOMAIN last.pre.vertices) > Cardinality(DOMAIN buildInitialMesh(config).vertices)

\* the orientation of triangle t of mesh M: the sign of its signed rest-UV area
Winding(M, t) ==
  LET tv == M.triangles[t].vertices
      area == Det2(M.vertices[tv[1]].uv, M.vertices[tv[2]].uv, M.vertices[tv[3]].uv)
  IN IF area > 0 THEN 1 ELSE IF area < 0 THEN -1 ELSE 0

\* C26: insertVertexOnEdge(v0, v1, t) with 0 < t < 1 on an existing edge of a
\* mesh whose triangles all have the same orientation leaves every triangle,
\* the new ones included, with that orientation.
C26_WindingPreserved ==
  (/\ last.op = "insertVertexOnEdge"
   /\ ~last.threw
   /\ getEdge(last.pre, last.args[1], last.args[2]) # 0
   /\ \E s \in {-1, 1} : \A t \in DOMAIN last.pre.triangles : Winding(last.pre, t) = s)
  => \A t \in DOMAIN triangles : Winding(Mesh, t) = Winding(last.pre, 0)

\* the boundary edges of the mesh that end at v
BoundaryEdgesAt(v) ==
  {e \in 1..Len(edges) : edges[e].isBoundary /\ (edges[e].vertices[1] = v \/ edges[e].vertices[2] = v)}

C28_WitnessTorn ==
  /\ last.op = "getBoundaryLoop"
  /\ last.prev[1] = "tearEdge"
  /\ Len(last.loop) >= 2
  /\ \E v \in DOMAIN vertices : vertices[v].isBoundary /\ ~Includes(last.loop, v)

\* the pairs of triangles of mesh M that share an edge
AdjacentPairs(M) ==
  {{M.edges[e].triangles[1], M.edges[e].triangles[2]} :
     e \in {i \in 1..Len(M.edges) : Len(M.edges[i].triangles) = 2}}

\* tearEdge was called on an edge that had two triangles and was not torn
ToreInnerEdge ==
  /\ last.op = "tearEdge"
  /\ getEdge(last.pre, last.args[1], last.args[2]) # 0
  /\ LET edge == last.pre.edges[getEdge(last.pre, last.args[1], last.args[2])]
     IN Len(edge.triangles) = 2 /\ ~edge.isTorn

\* C32: tearEdge(v0, v1) on an inner edge takes away the adjacency of the two
\* triangles of that edge and no other: every other pair of triangles that
\* shared an edge before the call shares one after it.
C32_TearSeparatesOneEdge ==
  ToreInnerEdge =>
    LET edge == last.pre.edges[getEdge(last.pre, last.args[1], last.args[2])]
    IN AdjacentPairs(Mesh) = AdjacentPairs(last.pre) \ {{edge.triangles[1], edge.triangles[2]}}

\* the pair across the torn edge is taken away, whatever else is
C32_TornPairSeparated ==
  ToreInnerEdge =>
    LET edge == last.pre.edges[getEdge(last.pre, last.args[1], last.args[2])]
    IN {edge.triangles[1], edge.triangles[2]} \notin AdjacentPairs(Mesh)

\* the rest-UV area of triangle t as addTriangle would compute it now
AreaNow(t) ==
  LET tv == triangles[t].vertices
  IN Quo(Abs(Det2(vertices[tv[1]].uv, vertices[tv[2]].uv, vertices[tv[3]].uv)), 2 * FP)

RECURSIVE RestAreaOf(_)
RestAreaOf(n) == IF n = 0 THEN 0 ELSE triangles[n - 1].restArea + RestAreaOf(n - 1)

\* C35: after any calls of splitVertex, tearEdge and insertVertexOnEdge that
\* did not throw, the restArea of every triangle is the rest-UV area of its
\* three vertices and the restArea values add up to the area 1 of the sheet.
C35_RestAreaCorrect ==
  last.clean =>
    /\ \A t \in DOMAIN triangles : triangles[t].restArea = AreaNow(t)
    /\ RestAreaOf(nextTriangleId) = FP

\* the same as long as insertVertexOnEdge has split no triangle, which it
\* does exactly when it adds one
C35_RestAreaWithoutInsert ==
  (last.clean /\ nextTriangleId = buildInitialMesh(config).nextTriangleId)
  => /\ \A t \in DOMAIN triangles : triangles[t].restArea = AreaNow(t)
     /\ RestAreaOf(nextTriangleId) = FP

(***************************************************************************)
(* Properties of the tear tips                                             *)
(***************************************************************************)
\* C21: a tear tip only propagates along untorn edges: the pair of vertex
\* ids a step gives to tearEdge for a tip was given to tearEdge neither by
\* an earlier step nor for an earlier tip of the same step.
C21_NoRetear ==
  \A k \in 1..Len(tearTips) :
    (Processed(k) /\ last.did[k].torn # <<>>) =>
      /\ {last.did[k].torn[1], last.did[k].torn[2]} \notin last.committed
      /\ \A j \in 1..(k - 1) :
           last.did[j].torn # <<>> =>
             {last.did[j].torn[1], last.did[j].torn[2]} # {last.did[k].torn[1], last.did[k].torn[2]}


\* C25: the tear direction a step computes for a tip has a dot product >= 0
\* with the tear direction the tip had before the step, whatever the fiber
\* direction and the fiber anisotropy of the sheet.
C25_TearDirectionContinuity ==
  \A k \in 1..Len(last.did) :
    Processed(k) => vec2dot(last.did[k].tearDir, last.did[k].before.tearDirection) >= 0

\* tip k of the last step stood at a boundary vertex and fewer than 2 force
\* samples were gathered around it
FewSamples(k) ==
  /\ last.op = "step"
  /\ k \in 1..Len(last.did)
  /\ LET d == last.did[k] IN
       /\ d.before.vertexId \in DOMAIN d.mesh.vertices
       /\ d.mesh.vertices[d.before.vertexId].isBoundary
       /\ Len(GatherForces(d.mesh, vertexForces, d.before.vertexId)) < 2

\* the mesh left by the processing of tip k of the last step
MeshAfterTip(k) == IF k < Len(last.did) THEN last.did[k + 1].mesh ELSE Mesh

Topology(M) ==
  <<M.triangles, M.edges, M.nextVertexId, M.nextTriangleId,
    [v \in DOMAIN M.vertices |-> <<M.vertices[v].isBoundary, M.vertices[v].isTearTip>>]>>

\* C27: a tip around which fewer than 2 usable force samples are gathered is
\* left as it was by the step (energy, tearDirection, vertexId), and so is the
\* topology of the mesh.
C27_TooFewSamples ==
  \A k \in 1..Len(last.did) :
    FewSamples(k) =>
      /\ tearTips[k] = last.did[k].before
      /\ Topology(MeshAfterTip(k)) = Topology(last.did[k].mesh)

\* a step with a grab force has met a tip with exactly one usable sample
C27_Witness ==
  /\ last.grabForce # Zero3
  /\ \E k \in 1..Len(last.did) :
       /\ FewSamples(k)
       /\ Len(GatherForces(last.did[k].mesh, vertexForces, last.did[k].before.vertexId)) = 1

\* C29: after every step the depth position.z of every vertex that is not
\* pinned lies in [-0.5, 0.5]; NaN lies in no range.
C29_DepthClamp ==
  last.op = "step" =>
    \A v \in DOMAIN vertices :
      ~vertices[v].pinned =>
        /\ vertices[v].position[3] \notin NonFinite
        /\ -MaxDepth <= vertices[v].position[3]
        /\ vertices[v].position[3] <= MaxDepth

\* the same, on sheets whose vertices have a mass
C29_DepthClampWithMass ==
  (\A v \in DOMAIN vertices : vertices[v].mass # 0) => C29_DepthClamp

\* C33: the energy of every tear tip is at least 0 in every state.
C33_EnergyNotNegative ==
  \A k \in 1..Len(tearTips) : tearTips[k].energy >= 0

\* the energy-release rate computed for a tip is never negative
C33_RateNotNegative ==
  \A k \in 1..Len(last.did) : Processed(k) => last.did[k].rate >= 0

\* C34: no two tear tips stand at the same vertex.
C34_TipsDistinct ==
  \A j, k \in 1..Len(tearTips) : j # k => tearTips[j].vertexId # tearTips[k].vertexId

\* initiateTearAt adds no tip at a vertex that has one, is unknown or is not
\* on the boundary
C34_InitiateRefuses ==
  last.op = "initiateTearAt" =>
    LET v == last.args[1]
        refused == \/ v \notin DOMAIN last.pre.vertices
                   \/ ~last.pre.vertices[v].isBoundary
                   \/ \E k \in 1..Len(last.tips) : last.tips[k].vertexId = v
    IN IF refused THEN tearTips = last.tips
       ELSE Len(tearTips) = Len(last.tips) + 1 /\ tearTips[Len(tearTips)].vertexId = v

\* C22: isTearTip marks exactly the active frontier: a vertex has isTearTip
\* set if and only if it is the vertexId of some tip in tearTips.
C22_TearTipFlag ==
  \A v \in DOMAIN vertices :
    vertices[v].isTearTip <=> \E k \in 1..Len(tearTips) : tearTips[k].vertexId = v

\* the half of it that the code keeps: the vertex of every tip carries the flag
C22_TipsAreFlagged ==
  \A k \in 1..Len(tearTips) : vertices[tearTips[k].vertexId].isTearTip

(***************************************************************************)
(* Properties of the scene and its sounds                                  *)
(***************************************************************************)
\* C30: a tear that completes before the tear sounds are loaded gets no
\* sound, neither when it completes nor when the loading ends.
C30_SoundSkipped ==
  \A k \in 1..Len(calendarScene.tears) :
    ~calendarScene.tears[k].loaded => calendarScene.tears[k].sound = NoSound

\* the handling of a completed tear does not wait for the sounds: the date
\* has advanced and onDateChange was called for every tear, whether or not
\* its call of playTearSound still waits
C30_HandlingDoesNotWait ==
  /\ calendarScene.currentIndex = Len(calendarScene.tears)
  /\ calendarScene.dateChanges = Len(calendarScene.tears)

\* a tear has been handled while its sound waits for the loading
C30_HandledWhileWaiting ==
  /\ calendarScene.waiting # <<>>
  /\ ~calendarScene.isLoaded
  /\ calendarScene.currentIndex = Len(calendarScene.tears)

(***************************************************************************)
(* Properties of the fall of a torn page                                   *)
(***************************************************************************)
\* a detached page has been released: endDrag has run on a detached page
\* that was dragged, or the 50 ms timer of endDrag has fired on a detached page
Released ==
  /\ dragController = "PaperTear"
  /\ \/ last.op = "endDrag" /\ last.pre.isDragging /\ last.pre.isDetached
     \/ last.op = "timeout" /\ last.pre.isDetached

\* the fall has ended: the detached paper is removed, onFallComplete was the
\* last callback, and the flags of the tear are down
FallComplete ==
  /\ ~paperTear.isFalling /\ ~paperTear.isDetached /\ ~paperTear.tearCompleted
  /\ ~paperTear.detachedCanvas
  /\ paperTear.calls # <<>> /\ paperTear.calls[Len(paperTear.calls)] = "onFallComplete"
  /\ PaperTear_isInteractive(paperTear) = ~paperTear.isLocked

\* C31: when the animation frames that are requested are run, a released
\* detached page is eventually removed, onFallComplete is called and
\* isFalling, isDetached and tearCompleted are false again, so that
\* isInteractive() is true unless the controller is locked.
C31_FallCompletes == Released ~> FallComplete

\* a frame has ended the fall of a page
C31_FallEnded ==
  /\ dragController = "PaperTear"
  /\ last.op = "frame"
  /\ last.pre.isFalling /\ last.pre.isDetached
  /\ FallComplete
  /\ paperTear.timers = 0


(***************************************************************************)
(* Properties of the lock of the drag controller                           *)
(***************************************************************************)

\* C36: a pointer call made on a locked PaperTear (locked before the call,
\* lock() being the only way to get there) starts no new drag, detaches no
\* page and does not invoke onTearComplete, also when the lock was set while
\* a drag was in progress.
C36_LockEffective ==
  (/\ dragController = "PaperTear"
   /\ last.op \in {"startDrag", "updateDrag", "endDrag"}
   /\ last.pre.isLocked)
  => /\ paperTear.isDragging => last.pre.isDragging
     /\ paperTear.isDetached => last.pre.isDetached
     /\ TearCompletes(paperTear) = TearCompletes(last.pre)

\* startDrag on a locked PaperTear changes nothing
C36_LockedStartRefused ==
  (/\ dragController = "PaperTear"
   /\ last.op = "startDrag"
   /\ last.pre.isLocked)
  => paperTear = last.pre


(***************************************************************************)
(* Properties of a splitVertex that fails                                  *)
(***************************************************************************)
\* C37: when splitVertex throws, because the vertex id or one of the
\* triangle ids of trianglesToMove is unknown, no vertex was added, no
\* triangle refers to another vertex than before and the edge map is the one
\* from before the call.
C37_FailedSplitAtomic ==
  (last.op = "splitVertex" /\ last.threw)
  => /\ vertices = last.pre.vertices
     /\ triangles = last.pre.triangles
     /\ edges = last.pre.edges

\* a splitVertex that throws on an unknown vertex id has only used up an id
C37_UnknownVertexKeepsMesh ==
  (/\ last.op = "splitVertex" /\ last.threw
   /\ last.args[1] \notin DOMAIN last.pre.vertices)
  => /\ Mesh = [last.pre EXCEPT !.nextVertexId = @ + 1]
     /\ last.newId = NoVertex


(***************************************************************************)
(* Properties of the scene at its last date                                *)
(***************************************************************************)
\* C38: currentIndex starts at 0, grows by exactly 1 with every
\* onTearComplete and stays at most dates.length - 1; when it is the last
\* index the PaperTear is locked, and on a locked PaperTear no handler of
\* the scene starts a drag or brings another onTearComplete; onDateChange
\* is called once for every advance.
C38_CalendarStopsAtLastDate ==
  /\ last.op = "new" => calendarScene.currentIndex = 0
  /\ calendarScene.currentIndex \in 0..(MaxDates - 1)
  /\ calendarScene.currentIndex - last.scene.currentIndex
       = TearCompletes(paperTear) - TearCompletes(last.pre)
  /\ TearCompletes(paperTear) - TearCompletes(last.pre) \in {0, 1}
  /\ calendarScene.dateChanges - last.scene.dateChanges
       = calendarScene.currentIndex - last.scene.currentIndex
  /\ calendarScene.currentIndex = MaxDates - 1 => paperTear.isLocked /\ calendarScene.locked
  /\ last.pre.isLocked =>
       /\ paperTear.isDragging => last.pre.isDragging
       /\ TearCompletes(paperTear) = TearCompletes(last.pre)
       /\ calendarScene.currentIndex = MaxDates - 1

\* the last date is shown, the torn page has fallen, and a mouse down on
\* the locked page has changed nothing
C38_MouseDownAtLastDate ==
  /\ last.op = "mouseDown"
  /\ last.pre.isLocked
  /\ ~last.pre.isFalling /\ ~last.pre.isDetached /\ ~last.pre.tearCompleted
  /\ paperTear = last.pre
  /\ calendarScene.currentIndex = MaxDates - 1
  /\ calendarScene.dateChanges = MaxDates - 1
  /\ TearCompletes(paperTear) = MaxDates - 1

\* the lock came while the page was held: the pointer moves on with the
\* detached page under a locked PaperTear
C38_LockedWhileHeld ==
  /\ last.op = "mouseMove"
  /\ last.pre.isLocked /\ last.pre.isDragging /\ last.pre.isDetached
  /\ calendarScene.currentIndex = MaxDates - 1


(***************************************************************************)
(* Properties of the velocity samples of the PaperTear                     *)
(***************************************************************************)
\* the last n elements of s
LastOf(s, n) == IF Len(s) <= n THEN s ELSE SubSeq(s, Len(s) - n + 1, Len(s))

\* the pointer delta of the updateDrag that was the last call
LastDelta == <<last.args[1][1] - last.pre.dragCurrent[1], last.args[1][2] - last.pre.dragCurrent[2]>>

\* at most 5 samples, which are the most recent pointer deltas of the drag;
\* zero release velocity from fewer than 2 samples
SamplesBounded ==
  /\ Len(velocityHistory) <= HistoryLength
  /\ (last.op = "updateDrag" /\ last.pre.isDragging /\ ~last.pre.isFalling)
       => velocityHistory = LastOf(Append(last.history, LastDelta), HistoryLength)
  /\ (last.op = "endDrag" /\ last.pre.isDragging /\ Len(last.history) < MinSamples)
       => releaseVelocity = Zero2

\* C39: the velocity history holds at most 5 samples, the most recent
\* pointer deltas with the oldest dropped first; every startDrag empties it;
\* the release velocity that endDrag computes from fewer than 2 samples is
\* the zero vector.
C39_BoundedHistory ==
  /\ SamplesBounded
  /\ last.op = "startDrag" => velocityHistory = <<>>

\* C39, with startDrag taken as a call that is not refused: a startDrag on a
\* page that is neither falling nor locked empties the history.
C39_BoundedHistoryOfDrag ==
  /\ SamplesBounded
  /\ (last.op = "startDrag" /\ ~last.pre.isFalling /\ ~last.pre.isLocked)
       => velocityHistory = <<>>

\* a sixth sample has pushed out the oldest one
C39_OldestDropped ==
  /\ last.op = "updateDrag"
  /\ Len(last.history) = HistoryLength
  /\ Len(velocityHistory) = HistoryLength
  /\ velocityHistory # last.history
  /\ velocityHistory[1] # last.history[1]

\* a drag was released after a single sample that was not zero
C39_ReleasedWithOneSample ==
  /\ last.op = "endDrag" /\ last.pre.isDragging
  /\ Len(last.history) = 1 /\ last.history[1] # Zero2
  /\ releaseVelocity = Zero2

\* a startDrag has emptied a history that held samples
C39_StartEmptied ==
  /\ last.op = "startDrag" /\ last.history # <<>> /\ velocityHistory = <<>>

=============================================================================
